---- MODULE Spec2Model ----
(***************************************************************************)
(* Theory-name canonicalisation and scoring engine.                        *)
(*                                                                         *)
(* A theory name is a sequence of characters.  An ASCII character is the   *)
(* one-character string; an ideograph is written "uXXXX" (its code point). *)
(***************************************************************************)
EXTENDS Integers, Sequences, FiniteSets, TLC

VARIABLES
    mapping_file,      \* content of the file at settings.THEORY_MAPPING_PATH
    dynamic_mapping,   \* TheoryNormalizer._dynamic_mapping (ordered dict: sequence of <<std, variants>>)
    reverse_mapping,   \* TheoryNormalizer._reverse_mapping: <<>> is None, <<rev>> is a built index
    calls,             \* normalize calls (arg, res) answered since the mapping last changed (last two)
    loaded,            \* groups of the artifact given to the last load_dynamic_mapping(path): <<>> or <<groups>>
    source,            \* content of the file the last load_dynamic_mapping read, while no add_mapping followed: <<>> or <<content>>
    added,             \* arguments of the last add_mapping, while no load_dynamic_mapping followed: <<>> or <<[standard_name, variants]>>
    rpc,               \* reader thread: the statement of normalize / get_all_variants it is at
    rcall,             \* reader thread: the call it is in, [op, arg]
    riter,             \* reader thread: the dict its loop over _dynamic_mapping.items() iterates
    rlocal,            \* reader thread: the local variable reverse
    rres,              \* reader thread: how its last call ended, [status, val]
    wpc,               \* writer thread: the statement of load_dynamic_mapping / add_mapping it is at
    wcall,             \* writer thread: the call it is in
    writes,            \* writer thread: calls completed
    theories_table,    \* case store: the names in table theories
    case_theories,     \* case store: theory name -> the rows get_cases_by_theory returns
    novel_max_usage,   \* settings.NOVEL_MAX_USAGE
    high_freq_min_usage, \* settings.HIGH_FREQ_MIN_USAGE
    all_theories_cache,  \* ExactMatcher._all_theories_cache: <<>> is None
    theories,          \* match_theories: its argument
    idx,               \* match_theories: position of the loop in theories
    exact_results,     \* match_theories: exact_results
    fuzzy_results,     \* match_theories: fuzzy_results
    mstatus,           \* match_theories: "idle", "running", "returned" or "raised"
    merged,            \* the last call of merge_theory_results: <<>> or <<[name, failing, result]>>
    raised,            \* whether a store query raised during the current match_theories call
    search,            \* the last call of VectorStore.search_similar: <<>> or <<[raised, result]>>
    tiers,             \* the last classification of a usage count: <<>> or <<[by, count, tier]>>
    names,             \* build_theory_mapping: the names it is given (store names, then extra_theories)
    mapping,           \* build_theory_mapping: <<>> or <<the mapping returned for names>>
    first,             \* build_theory_mapping: <<>> or <<the mapping returned for the first order of names>>
    scored,            \* the last call of compute_comprehensive_score: <<>> or <<[inputs, result]>>
    ranked,            \* the last call of rank_similar_cases: <<>> or <<[semantic_matches, top_k, result]>>
    innovation,        \* the last call of calculate_innovation_score: <<>> or <<[theories, exact_matches, result]>>
    keyworded,         \* the last call of _calculate_keyword_similarity: <<>> or <<[keywords1, keywords2, result]>>
    listed             \* the last call of normalize_list: <<>> or <<[theory_list, result]>>

normVars == <<mapping_file, dynamic_mapping, reverse_mapping, calls, loaded, source, added>>

concVars == <<rpc, rcall, riter, rlocal, rres, wpc, wcall, writes>>

storeVars == <<theories_table, case_theories, novel_max_usage, high_freq_min_usage>>

matchVars == <<all_theories_cache, theories, idx, exact_results, fuzzy_results,
               mstatus, merged, raised, search>>

tierVars == <<tiers>>

mapVars == <<names, mapping, first>>

scoreVars == <<scored, ranked, innovation, keyworded>>

listVars == <<listed>>

libVars == <<tierVars, mapVars, scoreVars, listVars>>

vars == <<normVars, concVars, storeVars, matchVars, libVars>>

----------------------------------------------------------------------------
(* Characters: str.lower() and str.strip()                                  *)

UpperCase == <<"A","B","C","D","E","F","G","H","I","J","K","L","M","N","O","P","Q","R","S","T","U","V","W","X","Y","Z">>
LowerCase == <<"a","b","c","d","e","f","g","h","i","j","k","l","m","n","o","p","q","r","s","t","u","v","w","x","y","z">>

WhiteSpace == {" ", "\t", "u3000"}

\* the lower-case letter of each upper-case letter
ToLower == [c \in {UpperCase[i] : i \in 1..Len(UpperCase)} |->
               LowerCase[CHOOSE i \in 1..Len(UpperCase) : UpperCase[i] = c]]

\* one character of str.lower()
LowerChar(c) == IF c \in DOMAIN ToLower THEN ToLower[c] ELSE c

\* str.lower()
Lower(s) == [i \in 1..Len(s) |-> LowerChar(s[i])]

RECURSIVE LStrip(_)
LStrip(s) == IF s # <<>> /\ Head(s) \in WhiteSpace THEN LStrip(Tail(s)) ELSE s

RECURSIVE RStrip(_)
RStrip(s) ==
    IF s # <<>> /\ s[Len(s)] \in WhiteSpace THEN RStrip(SubSeq(s, 1, Len(s) - 1)) ELSE s

\* str.strip()
Strip(s) == RStrip(LStrip(s))

\* the index key of a surface form: str(v).lower().strip()
Key(v) == Strip(Lower(v))

----------------------------------------------------------------------------
(* TheoryNormalizer                                                         *)

\* TheoryNormalizer.BUILTIN_MAPPING, in dict order: <<std, variants>>
BUILTIN_MAPPING ==
  <<
    \* SWOT分析: SWOT分析, SWOT Analysis, swot分析, SWOT, swot
    << <<"S","W","O","T","u5206","u6790">>,
       << <<"S","W","O","T","u5206","u6790">>,
          <<"S","W","O","T"," ","A","n","a","l","y","s","i","s">>,
          <<"s","w","o","t","u5206","u6790">>,
          <<"S","W","O","T">>,
          <<"s","w","o","t">> >> >>,
    \* 波特五力模型: 波特五力, 波特五力模型, 波特五力分析, 五力模型, Porter's Five Forces
    << <<"u6ce2","u7279","u4e94","u529b","u6a21","u578b">>,
       << <<"u6ce2","u7279","u4e94","u529b">>,
          <<"u6ce2","u7279","u4e94","u529b","u6a21","u578b">>,
          <<"u6ce2","u7279","u4e94","u529b","u5206","u6790">>,
          <<"u4e94","u529b","u6a21","u578b">>,
          <<"P","o","r","t","e","r","'","s"," ","F","i","v","e"," ","F","o","r","c","e","s">> >> >>,
    \* 4P营销理论: 4P, 4P营销, 4P理论, 4Ps, 营销4P
    << <<"4","P","u8425","u9500","u7406","u8bba">>,
       << <<"4","P">>,
          <<"4","P","u8425","u9500">>,
          <<"4","P","u7406","u8bba">>,
          <<"4","P","s">>,
          <<"u8425","u9500","4","P">> >> >>,
    \* 蓝海战略: 蓝海战略, 蓝海理论, 蓝海策略, Blue Ocean Strategy
    << <<"u84dd","u6d77","u6218","u7565">>,
       << <<"u84dd","u6d77","u6218","u7565">>,
          <<"u84dd","u6d77","u7406","u8bba">>,
          <<"u84dd","u6d77","u7b56","u7565">>,
          <<"B","l","u","e"," ","O","c","e","a","n"," ","S","t","r","a","t","e","g","y">> >> >>,
    \* PEST分析: PEST, PEST分析, PEST模型, PEST Analysis
    << <<"P","E","S","T","u5206","u6790">>,
       << <<"P","E","S","T">>,
          <<"P","E","S","T","u5206","u6790">>,
          <<"P","E","S","T","u6a21","u578b">>,
          <<"P","E","S","T"," ","A","n","a","l","y","s","i","s">> >> >>,
    \* 价值链分析: 价值链, 价值链分析, 波特价值链, 价值链理论
    << <<"u4ef7","u503c","u94fe","u5206","u6790">>,
       << <<"u4ef7","u503c","u94fe">>,
          <<"u4ef7","u503c","u94fe","u5206","u6790">>,
          <<"u6ce2","u7279","u4ef7","u503c","u94fe">>,
          <<"u4ef7","u503c","u94fe","u7406","u8bba">> >> >>,
    \* BCG矩阵: BCG, BCG矩阵, BCG分析, Boston Matrix
    << <<"B","C","G","u77e9","u9635">>,
       << <<"B","C","G">>,
          <<"B","C","G","u77e9","u9635">>,
          <<"B","C","G","u5206","u6790">>,
          <<"B","o","s","t","o","n"," ","M","a","t","r","i","x">> >> >>,
    \* 平衡计分卡: BSC, 平衡计分卡, Balanced Scorecard
    << <<"u5e73","u8861","u8ba1","u5206","u5361">>,
       << <<"B","S","C">>,
          <<"u5e73","u8861","u8ba1","u5206","u5361">>,
          <<"B","a","l","a","n","c","e","d"," ","S","c","o","r","e","c","a","r","d">> >> >>,
    \* 商业模式画布: BMC, 商业模式画布, Business Model Canvas, 商业画布
    << <<"u5546","u4e1a","u6a21","u5f0f","u753b","u5e03">>,
       << <<"B","M","C">>,
          <<"u5546","u4e1a","u6a21","u5f0f","u753b","u5e03">>,
          <<"B","u","s","i","n","e","s","s"," ","M","o","d","e","l"," ","C","a","n","v","a","s">>,
          <<"u5546","u4e1a","u753b","u5e03">> >> >>,
    \* 精益创业: 精益创业, Lean Startup, 精益创新
    << <<"u7cbe","u76ca","u521b","u4e1a">>,
       << <<"u7cbe","u76ca","u521b","u4e1a">>,
          <<"L","e","a","n"," ","S","t","a","r","t","u","p">>,
          <<"u7cbe","u76ca","u521b","u65b0">> >> >>,
    \* 长尾理论: 长尾, 长尾理论, 长尾效应, Long Tail
    << <<"u957f","u5c3e","u7406","u8bba">>,
       << <<"u957f","u5c3e">>,
          <<"u957f","u5c3e","u7406","u8bba">>,
          <<"u957f","u5c3e","u6548","u5e94">>,
          <<"L","o","n","g"," ","T","a","i","l">> >> >>
  >>

\* Python None / a value that is not None
None == <<>>
Some(v) == <<v>>

\* an empty dict[str, str]
EmptyIndex == [k \in {} |-> <<>>]

\* keys of an ordered dict held as a sequence of <<key, value>>
DictKeys(d) == {d[i][1] : i \in 1..Len(d)}

\* d[k], for k in d
DictGet(d, k) == d[CHOOSE i \in 1..Len(d) : d[i][1] = k][2]

\* d[k] = v: an existing key keeps its position, a new key goes last
DictSet(d, k, v) ==
    IF k \in DictKeys(d)
    THEN [i \in 1..Len(d) |-> IF d[i][1] = k THEN <<k, v>> ELSE d[i]]
    ELSE Append(d, <<k, v>>)

\* what a mapping file can hold: nothing (no file), text that yaml.safe_load
\* or data.get raises on, a document whose 'mappings' is not a dict of str
\* keys to lists, or a dict of such groups
Missing == [kind |-> "missing", groups |-> <<>>]
Malformed == [kind |-> "malformed", groups |-> <<>>]
NotMapping == [kind |-> "not_mapping", groups |-> <<>>]
WellFormed(g) == [kind |-> "map", groups |-> g]

\* yaml.safe_load of the file and the cleaning loop: the cleaned dict, or a raise
ReadMapping(content) ==
    IF content.kind = "map"
    THEN [raised |-> FALSE, cleaned |-> content.groups]
    ELSE IF content.kind = "not_mapping"
         THEN [raised |-> FALSE, cleaned |-> <<>>]
         ELSE [raised |-> TRUE, cleaned |-> <<>>]

\* _load_dynamic_mapping_if_exists: the value _dynamic_mapping is left with
load_dynamic_mapping_if_exists(content) ==
    IF content.kind = "missing" THEN <<>>
    ELSE IF ReadMapping(content).raised THEN <<>>
    ELSE ReadMapping(content).cleaned

\* for v in variants + [std]: reverse[key(v)] = std
RECURSIVE AssignAll(_, _, _)
AssignAll(rev, vs, std) ==
    IF vs = <<>> THEN rev
    ELSE AssignAll((Key(Head(vs)) :> std) @@ rev, Tail(vs), std)

\* the loop over _dynamic_mapping.items(): a later assignment overwrites
RECURSIVE DynamicPass(_, _)
DynamicPass(rev, items) ==
    IF items = <<>> THEN rev
    ELSE DynamicPass(AssignAll(rev, Append(Head(items)[2], Head(items)[1]), Head(items)[1]),
                     Tail(items))

\* for v in variants + [std]: reverse.setdefault(key(v), std)
RECURSIVE SetDefaultAll(_, _, _)
SetDefaultAll(rev, vs, std) ==
    IF vs = <<>> THEN rev
    ELSE SetDefaultAll(rev @@ (Key(Head(vs)) :> std), Tail(vs), std)

\* the loop over BUILTIN_MAPPING.items(), from an index with no key yet
RECURSIVE BuiltinPass(_, _)
BuiltinPass(rev, items) ==
    IF items = <<>> THEN rev
    ELSE BuiltinPass(SetDefaultAll(rev, Append(Head(items)[2], Head(items)[1]), Head(items)[1]),
                     Tail(items))

\* what the built-in loop sets when no key is present before it
BuiltinIndex == BuiltinPass(EmptyIndex, BUILTIN_MAPPING)

\* the index with the two loops in the other order of precedence: a key of
\* the built-in table keeps its built-in canonical
ReverseOfBuiltinFirst(dyn) == BuiltinIndex @@ DynamicPass(EmptyIndex, dyn)

\* the index _build_reverse_mapping computes from a dynamic mapping: the
\* dynamic loop, then the built-in loop, whose setdefault fills only the keys
\* the dynamic loop left absent (rev @@ f keeps rev where both are defined)
ReverseOf(dyn) == DynamicPass(EmptyIndex, dyn) @@ BuiltinIndex

\* _build_reverse_mapping: the (_dynamic_mapping, _reverse_mapping) it leaves
build_reverse_mapping ==
    IF reverse_mapping # None
    THEN [dyn |-> dynamic_mapping, rev |-> reverse_mapping]
    ELSE LET d == load_dynamic_mapping_if_exists(mapping_file)
         IN  [dyn |-> d, rev |-> Some(ReverseOf(d))]

\* dict.get(key, default)
Get(rev, k, default) == IF k \in DOMAIN rev THEN rev[k] ELSE default

\* the value normalize(theory_name) returns on a built index
Lookup(rev, theory_name) == Get(rev, Key(theory_name), theory_name)

\* the value get_all_variants(standard_name) returns
VariantsOf(dyn, standard_name) ==
    IF standard_name \in DictKeys(dyn)
    THEN Append(DictGet(dyn, standard_name), standard_name)
    ELSE IF standard_name \in DictKeys(BUILTIN_MAPPING)
         THEN Append(DictGet(BUILTIN_MAPPING, standard_name), standard_name)
         ELSE <<standard_name>>

----------------------------------------------------------------------------
(* Inputs of the normalizer                                                 *)

\* names that mapping artifacts and add_mapping are built from:
\* "SWOT分析" (a built-in canonical) and " Xy" (in no built-in group)
DynNames ==
    { <<"S","W","O","T","u5206","u6790">>, <<" ","X","y">> }

\* names that are looked up: the above and "swot" (a built-in variant)
Probe == DynNames \cup { <<"s","w","o","t">> }

\* a name a caller types with two blanks inside: "long  tail" (the built-in
\* table holds "Long Tail")
SpacedProbe == { <<"l","o","n","g"," "," ","t","a","i","l">> }

\* most groups in one artifact
MaxGroups == 2

\* variant lists of a group
VariantLists == {<<>>} \cup {<<v>> : v \in DynNames}

\* ordered dicts of exactly n groups with distinct keys
RECURSIVE DictsOfLen(_)
DictsOfLen(n) ==
    IF n = 0 THEN {<<>>}
    ELSE UNION {{Append(d, <<s, vs>>) : s \in DynNames \ DictKeys(d), vs \in VariantLists} :
                d \in DictsOfLen(n - 1)}

\* the groups a well-formed artifact can hold
Artifacts == UNION {DictsOfLen(n) : n \in 0..MaxGroups}

FileContents == {Missing, Malformed, NotMapping} \cup {WellFormed(g) : g \in Artifacts}

----------------------------------------------------------------------------
(* Operations of the normalizer, one call at a time                         *)

\* the record of a read call; chained: its argument is the result of the
\* normalize call answered just before it, under the same mapping
Call(op, arg, res) ==
    [op |-> op, arg |-> arg, res |-> res,
     chained |-> /\ calls # <<>>
                 /\ calls[1].op = "normalize"
                 /\ calls[1].res = arg]

\* arguments of a read: a probe, or what the last normalize returned
ReadArgs ==
    Probe \cup SpacedProbe \cup (IF calls # <<>> /\ calls[1].op = "normalize" THEN {calls[1].res} ELSE {})

\* load_dynamic_mapping(path) on a file holding content (path is not None)
load_dynamic_mapping(content) ==
    /\ dynamic_mapping' =
          IF ReadMapping(content).raised THEN <<>> ELSE ReadMapping(content).cleaned
    /\ reverse_mapping' = None
    /\ loaded' = IF content.kind = "map" THEN Some(content.groups) ELSE None
    /\ source' = Some(content)
    /\ added' = None
    /\ calls' = <<>>
    /\ UNCHANGED <<mapping_file, concVars, storeVars, matchVars, libVars>>

\* load_dynamic_mapping(settings.THEORY_MAPPING_PATH)
LoadDefaultPath == load_dynamic_mapping(mapping_file)

\* load_dynamic_mapping(path), path another file
LoadOtherPath == \E content \in FileContents : load_dynamic_mapping(content)

\* load_dynamic_mapping() with no path
LoadNoPath ==
    /\ dynamic_mapping' = load_dynamic_mapping_if_exists(mapping_file)
    /\ reverse_mapping' = None
    /\ loaded' = None
    /\ source' = Some(mapping_file)
    /\ added' = None
    /\ calls' = <<>>
    /\ UNCHANGED <<mapping_file, concVars, storeVars, matchVars, libVars>>

\* add_mapping(standard_name, variants)
add_mapping(standard_name, variants) ==
    /\ dynamic_mapping' = DictSet(dynamic_mapping, standard_name, variants)
    /\ reverse_mapping' = None
    /\ loaded' = None
    /\ source' = None
    /\ added' = Some([standard_name |-> standard_name, variants |-> variants])
    /\ calls' = <<>>
    /\ UNCHANGED <<mapping_file, concVars, storeVars, matchVars, libVars>>

AddMapping == \E s \in DynNames, vs \in VariantLists : add_mapping(s, vs)

\* normalize(theory_name)
normalize(theory_name) ==
    LET b == build_reverse_mapping
    IN  /\ dynamic_mapping' = b.dyn
        /\ reverse_mapping' = b.rev
        /\ calls' = <<Call("normalize", theory_name, Lookup(b.rev[1], theory_name))>>
        /\ UNCHANGED <<mapping_file, loaded, source, added, concVars, storeVars, matchVars, libVars>>

Normalize == \E x \in ReadArgs : normalize(x)

\* get_all_variants(standard_name)
get_all_variants(standard_name) ==
    LET b == build_reverse_mapping
    IN  /\ dynamic_mapping' = b.dyn
        /\ reverse_mapping' = b.rev
        /\ calls' = <<Call("get_all_variants", standard_name, VariantsOf(b.dyn, standard_name))>>
        /\ UNCHANGED <<mapping_file, loaded, source, added, concVars, storeVars, matchVars, libVars>>

GetAllVariants == \E c \in ReadArgs : get_all_variants(c)

NormInit ==
    /\ mapping_file \in FileContents
    /\ dynamic_mapping = <<>>
    /\ reverse_mapping = None
    /\ calls = <<>>
    /\ loaded = None
    /\ source = None
    /\ added = None

NormNext ==
    \/ LoadDefaultPath
    \/ LoadOtherPath
    \/ LoadNoPath
    \/ AddMapping
    \/ Normalize
    \/ GetAllVariants

----------------------------------------------------------------------------
(* Two threads on the normalizer: a reader in normalize / get_all_variants  *)
(* and a single writer in load_dynamic_mapping / add_mapping.  One step of  *)
(* a thread is one read or write of a class attribute.                      *)

\* most calls the writer makes
MaxWrites == 2

\* contents of the mapping files in the two-thread runs
ConcContents == {Missing} \cup {WellFormed(g) : g \in DictsOfLen(1)}

NoCall == [op |-> "none", arg |-> <<>>]
NoIter == [dict |-> <<>>, shared |-> FALSE, broken |-> FALSE]
NoRes == [status |-> "none", val |-> <<>>]

\* the reader enters normalize(x) or get_all_variants(x)
ReaderCall ==
    /\ rpc = "idle"
    /\ \E op \in {"normalize", "get_all_variants"}, x \in Probe :
          rcall' = [op |-> op, arg |-> x]
    /\ rpc' = "check"
    /\ rres' = NoRes
    /\ UNCHANGED <<storeVars, matchVars, libVars, normVars, riter, rlocal, wpc, wcall, writes>>

\* _build_reverse_mapping: if cls._reverse_mapping is not None: return
ReaderCheck ==
    /\ rpc = "check"
    /\ rpc' = IF reverse_mapping # None THEN "read" ELSE "load"
    /\ UNCHANGED <<storeVars, matchVars, libVars, normVars, rcall, riter, rlocal, rres, wpc, wcall, writes>>

\* _build_reverse_mapping: cls._load_dynamic_mapping_if_exists()
ReaderLoad ==
    /\ rpc = "load"
    /\ dynamic_mapping' = load_dynamic_mapping_if_exists(mapping_file)
    /\ rpc' = "iterate"
    /\ UNCHANGED <<storeVars, matchVars, libVars, mapping_file, reverse_mapping, calls, loaded, source, added,
                   rcall, riter, rlocal, rres, wpc, wcall, writes>>

\* _build_reverse_mapping: the loop over cls._dynamic_mapping.items() starts
\* on the dict the attribute holds now
ReaderIterate ==
    /\ rpc = "iterate"
    /\ riter' = [dict |-> dynamic_mapping, shared |-> TRUE, broken |-> FALSE]
    /\ rpc' = "built"
    /\ UNCHANGED <<storeVars, matchVars, libVars, normVars, rcall, rlocal, rres, wpc, wcall, writes>>

\* _build_reverse_mapping: the loops end; a dict that changed size under the
\* loop raises RuntimeError
ReaderBuilt ==
    /\ rpc = "built"
    /\ IF riter.broken
       THEN /\ rres' = [status |-> "RuntimeError", val |-> <<>>]
            /\ rpc' = "idle"
            /\ rlocal' = None
       ELSE /\ rlocal' = Some(ReverseOf(riter.dict))
            /\ rpc' = "publish"
            /\ rres' = rres
    /\ riter' = NoIter
    /\ UNCHANGED <<storeVars, matchVars, libVars, normVars, rcall, wpc, wcall, writes>>

\* _build_reverse_mapping: cls._reverse_mapping = reverse
ReaderPublish ==
    /\ rpc = "publish"
    /\ reverse_mapping' = rlocal
    /\ rlocal' = None
    /\ rpc' = "read"
    /\ UNCHANGED <<storeVars, matchVars, libVars, mapping_file, dynamic_mapping, calls, loaded, source, added,
                   rcall, riter, rres, wpc, wcall, writes>>

\* normalize: return cls._reverse_mapping.get(...), which raises
\* AttributeError on None; get_all_variants: the lookup in cls._dynamic_mapping
ReaderRead ==
    /\ rpc = "read"
    /\ rres' =
          IF rcall.op = "normalize"
          THEN IF reverse_mapping = None
               THEN [status |-> "AttributeError", val |-> <<>>]
               ELSE [status |-> "ok", val |-> Lookup(reverse_mapping[1], rcall.arg)]
          ELSE [status |-> "ok", val |-> VariantsOf(dynamic_mapping, rcall.arg)]
    /\ rpc' = "idle"
    /\ UNCHANGED <<storeVars, matchVars, libVars, normVars, rcall, riter, rlocal, wpc, wcall, writes>>

\* the writer enters load_dynamic_mapping(path), load_dynamic_mapping() or
\* add_mapping(standard_name, variants)
WriterCall ==
    /\ wpc = "idle"
    /\ writes < MaxWrites
    /\ \/ \E content \in ConcContents :
            wcall' = [op |-> "load", content |-> content, std |-> <<>>, variants |-> <<>>]
       \/ wcall' = [op |-> "load_default", content |-> Missing, std |-> <<>>, variants |-> <<>>]
       \/ \E s \in DynNames, vs \in VariantLists :
            wcall' = [op |-> "add", content |-> Missing, std |-> s, variants |-> vs]
    /\ wpc' = "assign"
    /\ UNCHANGED <<storeVars, matchVars, libVars, normVars, rpc, rcall, riter, rlocal, rres, writes>>

\* the writer's assignment to cls._dynamic_mapping: load_dynamic_mapping binds
\* the attribute to a new dict, add_mapping changes the dict in place (under
\* a running loop: a new key breaks the loop, a replaced value may or may
\* not be seen by it)
WriterAssign ==
    /\ wpc = "assign"
    /\ dynamic_mapping' =
          CASE wcall.op = "load" ->
                 IF ReadMapping(wcall.content).raised THEN <<>>
                 ELSE ReadMapping(wcall.content).cleaned
            [] wcall.op = "load_default" -> load_dynamic_mapping_if_exists(mapping_file)
            [] wcall.op = "add" -> DictSet(dynamic_mapping, wcall.std, wcall.variants)
    /\ IF wcall.op = "add"
       THEN IF riter.shared
            THEN IF wcall.std \in DictKeys(riter.dict)
                 THEN \E seen \in BOOLEAN :
                        riter' = [riter EXCEPT !.dict =
                                    IF seen THEN DictSet(@, wcall.std, wcall.variants) ELSE @]
                 ELSE riter' = [riter EXCEPT !.broken = TRUE]
            ELSE riter' = riter
       ELSE riter' = [riter EXCEPT !.shared = FALSE]
    /\ wpc' = "reset"
    /\ UNCHANGED <<storeVars, matchVars, libVars, mapping_file, reverse_mapping, calls, loaded, source, added,
                   rpc, rcall, rlocal, rres, wcall, writes>>

\* load_dynamic_mapping (finally) / add_mapping: cls._reverse_mapping = None
WriterReset ==
    /\ wpc = "reset"
    /\ reverse_mapping' = None
    /\ wpc' = "idle"
    /\ writes' = writes + 1
    /\ UNCHANGED <<storeVars, matchVars, libVars, mapping_file, dynamic_mapping, calls, loaded, source, added,
                   rpc, rcall, riter, rlocal, rres, wcall>>

ConcInit ==
    /\ mapping_file \in ConcContents
    /\ dynamic_mapping = <<>>
    /\ reverse_mapping = None
    /\ calls = <<>>
    /\ loaded = None
    /\ source = None
    /\ added = None
    /\ rpc = "idle"
    /\ rcall = NoCall
    /\ riter = NoIter
    /\ rlocal = None
    /\ rres = NoRes
    /\ wpc = "idle"
    /\ wcall = [op |-> "none", content |-> Missing, std |-> <<>>, variants |-> <<>>]
    /\ writes = 0

\* the threads are not running
ConcIdle ==
    /\ rpc = "idle"
    /\ rcall = NoCall
    /\ riter = NoIter
    /\ rlocal = None
    /\ rres = NoRes
    /\ wpc = "idle"
    /\ wcall = [op |-> "none", content |-> Missing, std |-> <<>>, variants |-> <<>>]
    /\ writes = 0

ConcNext ==
    \/ ReaderCall
    \/ ReaderCheck
    \/ ReaderLoad
    \/ ReaderIterate
    \/ ReaderBuilt
    \/ ReaderPublish
    \/ ReaderRead
    \/ WriterCall
    \/ WriterAssign
    \/ WriterReset

----------------------------------------------------------------------------
(* Case store, TheoryQueryHelper and ExactMatcher                           *)

\* the elements of a sequence
Range(q) == {q[i] : i \in 1..Len(q)}

\* Database.get_cases_by_theory(theory_name): WHERE t.name = ?
get_cases_by_theory(theory_name) ==
    IF theory_name \in theories_table THEN case_theories[theory_name] ELSE <<>>

\* case.get('id') or case.get('code') or case.get('name'); "" is a missing
\* (falsy) field
CaseId(case) ==
    IF case.id # "" THEN case.id
    ELSE IF case.code # "" THEN case.code
    ELSE case.name

\* the inner loop without the seen_case_ids test: every returned row is kept
RECURSIVE MergeCasesNoDedup(_, _, _)
MergeCasesNoDedup(acc, cases, variant) ==
    IF cases = <<>> THEN acc
    ELSE LET case == Head(cases)
         IN  MergeCasesNoDedup(
                [all_cases |-> Append(acc.all_cases,
                                      [id |-> case.id, code |-> case.code,
                                       name |-> case.name,
                                       matched_theory_name |-> variant]),
                 seen_case_ids |-> acc.seen_case_ids \cup {CaseId(case)}],
                Tail(cases), variant)

\* the inner loop of merge_theory_results over the cases of one variant;
\* acc is [all_cases, seen_case_ids]
RECURSIVE MergeCases(_, _, _)
MergeCases(acc, cases, variant) ==
    IF cases = <<>> THEN acc
    ELSE LET case == Head(cases)
             case_id == CaseId(case)
         IN  MergeCases(
                IF case_id \notin acc.seen_case_ids
                THEN [all_cases |-> Append(acc.all_cases,
                                           [id |-> case.id, code |-> case.code,
                                            name |-> case.name,
                                            matched_theory_name |-> variant]),
                      seen_case_ids |-> acc.seen_case_ids \cup {case_id}]
                ELSE acc,
                Tail(cases), variant)

\* the loop of merge_theory_results over the variants; a query of a variant
\* in failing raises, and the bare except skips that variant
RECURSIVE QueryVariants(_, _, _)
QueryVariants(acc, variants, failing) ==
    IF variants = <<>> THEN acc
    ELSE QueryVariants(
            IF Head(variants) \in failing THEN acc
            ELSE MergeCases(acc, get_cases_by_theory(Head(variants)), Head(variants)),
            Tail(variants), failing)

\* merge_theory_results: the frequency rank of a count
\* ("high_freq" is '经典理论', "common" '常见理论', "novel" '新颖理论')
FrequencyRank(count) ==
    IF count >= high_freq_min_usage THEN "high_freq"
    ELSE IF count > novel_max_usage THEN "common"
    ELSE "novel"

\* merge_theory_results(db, theory_name) on the index b.rev and the dynamic
\* mapping b.dyn, with the store raising on the names in failing
merge_theory_results(b, theory_name, failing) ==
    LET standard_name == Lookup(b.rev[1], theory_name)
        variants == VariantsOf(b.dyn, standard_name)
        acc == QueryVariants([all_cases |-> <<>>, seen_case_ids |-> {}], variants, failing)
        count == Len(acc.all_cases)
    IN  [theory_name |-> standard_name,
         variants |-> variants,
         usage_count |-> count,
         frequency_rank |-> FrequencyRank(count),
         cases |-> acc.all_cases]

\* ExactMatcher._get_frequency_info(count)
get_frequency_info(count) ==
    IF count >= high_freq_min_usage THEN "high_freq"
    ELSE IF count > novel_max_usage THEN "common"
    ELSE "novel"

\* the ideographs (一-鿿) of the names and suffixes of the model, in code
\* point order
CJKOrder ==
    <<"u4e1a","u4e94","u4ef7","u4f53","u503c","u5206","u521b","u529b","u5361",
      "u5546","u578b","u5c3e","u5e03","u5e73","u5e94","u5f0f","u6218","u6548",
      "u65b0","u65b9","u6790","u67b6","u6846","u6a21","u6cd5","u6ce2","u6d77",
      "u7279","u7406","u753b","u7565","u76ca","u77e9","u7b56","u7cbe","u7cfb",
      "u8425","u84dd","u8861","u8ba1","u8bba","u94fe","u9500","u957f","u9635">>

CJK == Range(CJKOrder)

Letters == Range(UpperCase) \cup Range(LowerCase)

\* re.sub(r"\s+", " ", s)
RECURSIVE CollapseWs(_)
CollapseWs(s) ==
    IF s = <<>> THEN <<>>
    ELSE IF Head(s) \in WhiteSpace
         THEN IF Len(s) > 1 /\ s[2] \in WhiteSpace
              THEN CollapseWs(Tail(s))
              ELSE <<" ">> \o CollapseWs(Tail(s))
         ELSE <<Head(s)>> \o CollapseWs(Tail(s))

\* .replace("（", "(").replace("）", ")")
HalfWidthParens(s) ==
    [i \in 1..Len(s) |-> IF s[i] = "uff08" THEN "(" ELSE IF s[i] = "uff09" THEN ")" ELSE s[i]]

\* _fuzzy_match_theory: the whitespace-normalized form of a name
MatchForm(s) == HalfWidthParens(Strip(CollapseWs(s)))

\* a in b, for strings
IsSubstring(a, b) ==
    \E i \in 0..(Len(b) - Len(a)) : SubSeq(b, i + 1, i + Len(a)) = a

\* re.sub(r"[^一-鿿]", "", s).strip()
IsCJK(c) == c \in CJK
ChinesePart(s) == SelectSeq(s, IsCJK)

\* re.sub(r"[^a-zA-Z]", " ", s).strip(), then re.sub(r"\s+", " ", ...).strip()
EnglishPart(s) ==
    Strip(CollapseWs(Strip([i \in 1..Len(s) |-> IF s[i] \in Letters THEN s[i] ELSE " "])))

\* _fuzzy_match_theory, strategy 1: the first name that contains the input
RECURSIVE FirstContaining(_, _)
FirstContaining(all_theories, input_theory) ==
    IF all_theories = <<>> THEN None
    ELSE IF IsSubstring(Lower(MatchForm(input_theory)), Lower(MatchForm(Head(all_theories))))
         THEN Some(Head(all_theories))
         ELSE FirstContaining(Tail(all_theories), input_theory)

\* the second loop over all_theories, with the two parts of the input
RECURSIVE SamePartLoop(_, _, _)
SamePartLoop(all_theories, chinese_part, english_part) ==
    IF all_theories = <<>> THEN None
    ELSE LET t == Head(all_theories)
             db_ch == ChinesePart(t)
             db_en == EnglishPart(t)
         IN  IF chinese_part # <<>> /\ db_ch # <<>> /\ chinese_part = db_ch
             THEN Some(t)
             ELSE IF english_part # <<>> /\ db_en # <<>> /\ Lower(english_part) = Lower(db_en)
                  THEN Some(t)
                  ELSE SamePartLoop(Tail(all_theories), chinese_part, english_part)

\* _fuzzy_match_theory, strategy 2: the first name with the same ideographic
\* part or the same latin part
FirstSamePart(all_theories, input_theory) ==
    SamePartLoop(all_theories, ChinesePart(input_theory), EnglishPart(input_theory))

\* a fallback that knows strategy 1 only
ContainingOnly(all_theories, input_theory) == FirstContaining(all_theories, input_theory)

\* ExactMatcher._fuzzy_match_theory(input_theory) on the cached corpus
fuzzy_match_theory(all_theories, input_theory) ==
    LET contained == FirstContaining(all_theories, input_theory)
    IN  IF contained # None THEN contained
        ELSE FirstSamePart(all_theories, input_theory)

----------------------------------------------------------------------------
(* Inputs and operations of the match engine                                *)

\* names table theories can hold, in the order of ORDER BY name:
\* " Xy", "SWOT", "SWOT分析"
StoreOrder ==
    << <<" ","X","y">>, <<"S","W","O","T">>, <<"S","W","O","T","u5206","u6790">> >>

StoreNames == Range(StoreOrder)

\* names that are matched: "swot", "Xy" and the empty name
MatchInputs == { <<"s","w","o","t">>, <<"X","y">>, <<>> }

\* most names in one match_theories call
MaxTheories == 2

\* rows of table cases: one with an id, two without (the second also without
\* a code), and one whose name is the code of another
Case1 == [id |-> "1", code |-> "k1", name |-> "n1"]
Case2 == [id |-> "", code |-> "k2", name |-> "n2"]
Case3 == [id |-> "", code |-> "", name |-> "n3"]
Case4 == [id |-> "", code |-> "", name |-> "k2"]

\* the rows one theory name can be linked to
CaseLists == { <<>>, <<Case1, Case2>>, <<Case3, Case4, Case1>> }

\* (NOVEL_MAX_USAGE, HIGH_FREQ_MIN_USAGE) in the runs of the match engine:
\* low enough for the rows of the store to reach every rank
MatchThresholds == { <<1, 3>> }

\* contents of the mapping file in the runs of the match engine: none, or
\* " Xy": ["SWOT分析"]
MatchContents ==
    { Missing,
      WellFormed(<< << <<" ","X","y">>, << <<"S","W","O","T","u5206","u6790">> >> >> >>) }

\* lists of at most n names to match
RECURSIVE ListsUpTo(_)
ListsUpTo(n) ==
    IF n = 0 THEN {<<>>}
    ELSE ListsUpTo(n - 1)
         \cup {Append(l, x) : l \in {m \in ListsUpTo(n - 1) : Len(m) = n - 1}, x \in MatchInputs}

\* Database.get_all_theory_names(): SELECT name FROM theories ORDER BY name
InTable(n) == n \in theories_table
get_all_theory_names == SelectSeq(StoreOrder, InTable)

\* a corpus that is read from the store at every use
GetAllTheoriesUncached == get_all_theory_names

\* ExactMatcher._get_all_theories(): the cached list, or the names of the
\* store when nothing is cached
get_all_theories ==
    IF all_theories_cache = None THEN get_all_theory_names
    ELSE all_theories_cache[1]

\* a dict with no key
EmptyMap == [k \in {} |-> <<>>]

\* the names a call merge_theory_results(db, name) queries the store for
QueriedNames(b, name) == Range(VariantsOf(b.dyn, Lookup(b.rev[1], name)))

\* what is kept of a call of merge_theory_results
MergeRecord(name, failing, result) ==
    <<[name |-> name, failing |-> failing, result |-> result]>>

\* TheoryQueryHelper.merge_theory_results(db, name), called on its own; the
\* store raises on the names in failing
MergeTheoryResults ==
    /\ mstatus = "idle"
    /\ search = None
    /\ LET b == build_reverse_mapping
       IN  /\ dynamic_mapping' = b.dyn
           /\ reverse_mapping' = b.rev
           /\ \E name \in MatchInputs \cup StoreNames :
              \E failing \in SUBSET (StoreNames \cap QueriedNames(b, name)) :
                 merged' = MergeRecord(name, failing, merge_theory_results(b, name, failing))
    /\ UNCHANGED <<concVars, libVars, mapping_file, calls, loaded, source, added, storeVars, all_theories_cache, theories,
                   idx, exact_results, fuzzy_results, mstatus, raised, search>>

\* match_theories(theories) is entered
MatchCall ==
    /\ mstatus = "idle"
    /\ search = None
    /\ theories' \in ListsUpTo(MaxTheories)
    /\ idx' = 1
    /\ exact_results' = EmptyMap
    /\ fuzzy_results' = EmptyMap
    /\ raised' = FALSE
    /\ merged' = None
    /\ mstatus' = "running"
    /\ UNCHANGED <<concVars, libVars, normVars, storeVars, all_theories_cache, search>>

\* names matched one at a time: "swot!" (the latin part of "SWOT" in another
\* case), "xy" (within " Xy" when case is ignored), "SWOT理论" (the latin part
\* of "SWOT"), "分析!" (the ideographic part of "SWOT分析"), "zz" (no name),
\* the empty name and a name of two blanks
FallbackInputs ==
    { <<"s","w","o","t","!">>, <<"x","y">>, <<"S","W","O","T","u7406","u8bba">>,
      <<"u5206","u6790","!">>, <<"z","z">>, <<>>, <<" "," ">> }

\* match_theories([theory]) is entered
MatchCallFallback ==
    /\ mstatus = "idle"
    /\ search = None
    /\ merged = None
    /\ \E theory \in FallbackInputs : theories' = <<theory>>
    /\ idx' = 1
    /\ exact_results' = EmptyMap
    /\ fuzzy_results' = EmptyMap
    /\ raised' = FALSE
    /\ merged' = None
    /\ mstatus' = "running"
    /\ UNCHANGED <<concVars, libVars, normVars, storeVars, all_theories_cache, search>>

\* the entry match_theories stores in exact_results
ExactEntry(m) ==
    [theory_name |-> m.theory_name,
     match_count |-> m.usage_count,
     frequency_rank |-> get_frequency_info(m.usage_count),
     cases |-> m.cases,
     match_type |-> "normalized"]

\* the entry match_theories stores in fuzzy_results
FuzzyEntry(theory, m) ==
    [input_theory |-> theory,
     matched_theory |-> m.theory_name,
     match_count |-> m.usage_count,
     frequency_rank |-> get_frequency_info(m.usage_count),
     cases |-> m.cases,
     match_type |-> "fuzzy+normalized"]

\* one pass of the loop of match_theories, for theories[idx]; the store
\* raises on the names in failing1 during the first aggregation and on those
\* in failing2 during the aggregation of the fallback hit; the fetch of the
\* corpus (when nothing is cached) may raise, and nothing catches that
MatchIterate ==
    /\ mstatus = "running"
    /\ idx <= Len(theories)
    /\ LET theory == theories[idx]
           b == build_reverse_mapping
           all_theories == get_all_theories
           fuzzy_matched == fuzzy_match_theory(all_theories, theory)
       IN  /\ dynamic_mapping' = b.dyn
           /\ reverse_mapping' = b.rev
           /\ \E failing1 \in SUBSET (StoreNames \cap QueriedNames(b, theory)) :
              LET merged1 == merge_theory_results(b, theory, failing1)
              IN  IF merged1.usage_count > 0
                  THEN /\ exact_results' = (theory :> ExactEntry(merged1)) @@ exact_results
                       /\ merged' = MergeRecord(theory, failing1, merged1)
                       /\ raised' = (raised \/ failing1 # {})
                       /\ idx' = idx + 1
                       /\ UNCHANGED <<fuzzy_results, all_theories_cache, mstatus>>
                  ELSE \/ /\ all_theories_cache = None
                          /\ mstatus' = "raised"
                          /\ merged' = MergeRecord(theory, failing1, merged1)
                          /\ raised' = (raised \/ failing1 # {})
                          /\ UNCHANGED <<exact_results, fuzzy_results, all_theories_cache, idx>>
                       \/ /\ all_theories_cache' = Some(all_theories)
                          /\ idx' = idx + 1
                          /\ UNCHANGED <<exact_results, mstatus>>
                          /\ IF fuzzy_matched # None /\ fuzzy_matched[1] # <<>>
                             THEN \E failing2 \in
                                     SUBSET (StoreNames \cap QueriedNames(b, fuzzy_matched[1])) :
                                  LET merged2 ==
                                        merge_theory_results(b, fuzzy_matched[1], failing2)
                                  IN  /\ merged' = MergeRecord(fuzzy_matched[1], failing2, merged2)
                                      /\ raised' = (raised \/ failing1 # {} \/ failing2 # {})
                                      /\ fuzzy_results' =
                                           IF merged2.usage_count > 0
                                           THEN (theory :> FuzzyEntry(theory, merged2))
                                                    @@ fuzzy_results
                                           ELSE fuzzy_results
                             ELSE /\ merged' = MergeRecord(theory, failing1, merged1)
                                  /\ raised' = (raised \/ failing1 # {})
                                  /\ fuzzy_results' = fuzzy_results
    /\ UNCHANGED <<concVars, libVars, mapping_file, calls, loaded, source, added, storeVars, theories, search>>

\* match_theories returns (exact_results, fuzzy_results)
MatchReturn ==
    /\ mstatus = "running"
    /\ idx > Len(theories)
    /\ mstatus' = "returned"
    /\ UNCHANGED <<concVars, libVars, normVars, storeVars, all_theories_cache, theories, idx,
                   exact_results, fuzzy_results, merged, raised, search>>

\* VectorStore.search_similar(query_embedding): collection.query returns
\* hits, or raises, and then the except branch returns the empty result
search_similar(collection_raises, hits) ==
    IF collection_raises
    THEN [outcome |-> "returned", ids |-> <<>>]
    ELSE [outcome |-> "returned", ids |-> hits]

SearchSimilar ==
    /\ mstatus = "idle"
    /\ merged = None
    /\ \E collection_raises \in BOOLEAN, hits \in {<<>>, <<"1">>} :
          search' = <<[collection_raises |-> collection_raises,
                       result |-> search_similar(collection_raises, hits)]>>
    /\ UNCHANGED <<concVars, libVars, normVars, storeVars, all_theories_cache, theories, idx,
                   exact_results, fuzzy_results, mstatus, merged, raised>>

StoreInit ==
    /\ theories_table \in SUBSET StoreNames
    /\ case_theories \in [StoreNames -> CaseLists]
    /\ \A n \in StoreNames : n \notin theories_table => case_theories[n] = <<>>
    /\ \E t \in MatchThresholds :
          novel_max_usage = t[1] /\ high_freq_min_usage = t[2]

\* an empty store, the default thresholds
StoreIdle ==
    /\ theories_table = {}
    /\ case_theories = [n \in StoreNames |-> <<>>]
    /\ novel_max_usage = 2
    /\ high_freq_min_usage = 5

\* ExactMatcher.__init__, and no call made yet
MatchIdle ==
    /\ all_theories_cache = None
    /\ theories = <<>>
    /\ idx = 1
    /\ exact_results = EmptyMap
    /\ fuzzy_results = EmptyMap
    /\ mstatus = "idle"
    /\ merged = None
    /\ raised = FALSE
    /\ search = None

MatchInit ==
    /\ mapping_file \in MatchContents
    /\ dynamic_mapping = <<>>
    /\ reverse_mapping = None
    /\ calls = <<>>
    /\ loaded = None
    /\ source = None
    /\ added = None
    /\ StoreInit
    /\ MatchIdle

\* the caller has taken the outcome of a call; the engine is kept
NextCall ==
    /\ mstatus \in {"returned", "raised"}
    /\ mstatus' = "idle"
    /\ theories' = <<>>
    /\ idx' = 1
    /\ exact_results' = EmptyMap
    /\ fuzzy_results' = EmptyMap
    /\ merged' = None
    /\ raised' = FALSE
    /\ UNCHANGED <<concVars, libVars, normVars, storeVars, all_theories_cache, search>>

\* between two calls a name is added to table theories, with its cases
StoreAdd ==
    /\ mstatus = "idle"
    /\ \E n \in StoreNames \ theories_table, cases \in CaseLists :
          /\ theories_table' = theories_table \cup {n}
          /\ case_theories' = [case_theories EXCEPT ![n] = cases]
    /\ UNCHANGED <<concVars, libVars, normVars, matchVars, novel_max_usage, high_freq_min_usage>>

\* ExactMatcher(db): a new engine replaces the one in use
NewEngine ==
    /\ mstatus = "idle"
    /\ all_theories_cache # None
    /\ all_theories_cache' = None
    /\ UNCHANGED <<concVars, libVars, normVars, storeVars, theories, idx, exact_results,
                   fuzzy_results, mstatus, merged, raised, search>>

CacheNext ==
    \/ MatchCallFallback
    \/ MatchIterate
    \/ MatchReturn
    \/ NextCall
    \/ StoreAdd
    \/ NewEngine

FallbackNext ==
    \/ MatchCallFallback
    \/ MatchIterate
    \/ MatchReturn

MatchNext ==
    \/ MergeTheoryResults
    \/ MatchCall
    \/ MatchIterate
    \/ MatchReturn
    \/ SearchSimilar

----------------------------------------------------------------------------
(* Frequency tiers of a usage count                                         *)

\* largest threshold configured and largest usage count classified
MaxThreshold == 5
MaxCount == 6

\* values of (NOVEL_MAX_USAGE, HIGH_FREQ_MIN_USAGE): the defaults (2, 5), or
\* any two ints of the YAML file, which overrides them without a check
TierThresholds == (0..MaxThreshold) \X (0..MaxThreshold)

\* what is kept of the classification of a count
Classification(by, count, tier) == <<[by |-> by, count |-> count, tier |-> tier]>>

\* the frequency rank merge_theory_results gives to a count
MergeRank ==
    /\ \E c \in 0..MaxCount :
          tiers' = Classification("merge_theory_results", c, FrequencyRank(c))
    /\ UNCHANGED <<normVars, concVars, storeVars, matchVars, mapVars, scoreVars, listVars>>

\* ExactMatcher._get_frequency_info(count)
GetFrequencyInfo ==
    /\ \E c \in 0..MaxCount :
          tiers' = Classification("get_frequency_info", c, get_frequency_info(c))
    /\ UNCHANGED <<normVars, concVars, storeVars, matchVars, mapVars, scoreVars, listVars>>

\* the normalizer as imported, no mapping file
NormIdle ==
    /\ mapping_file = Missing
    /\ dynamic_mapping = <<>>
    /\ reverse_mapping = None
    /\ calls = <<>>
    /\ loaded = None
    /\ source = None
    /\ added = None

TierIdle == tiers = None

TierInit ==
    /\ theories_table = {}
    /\ case_theories = [n \in StoreNames |-> <<>>]
    /\ \E t \in TierThresholds :
          novel_max_usage = t[1] /\ high_freq_min_usage = t[2]
    /\ tiers = None

MapIdle ==
    /\ names = <<>>
    /\ mapping = None
    /\ first = None

ScoreIdle == scored = None /\ ranked = None /\ innovation = None /\ keyworded = None

ListIdle == listed = None

LibIdle == TierIdle /\ MapIdle /\ ScoreIdle /\ ListIdle

----------------------------------------------------------------------------
(* theory_mapper: build_theory_mapping                                      *)

Digits == <<"0","1","2","3","4","5","6","7","8","9">>

\* the characters of the model in code point order
CharOrder ==
    <<"\t", " ", "(", ")", ",", ".">> \o Digits \o UpperCase \o LowerCase
        \o <<"u3000", "u3002">> \o CJKOrder \o <<"uff08", "uff09", "uff0c">>

Code(c) == CHOOSE i \in 1..Len(CharOrder) : CharOrder[i] = c

\* a < b for strings
RECURSIVE StrLess(_, _)
StrLess(a, b) ==
    IF b = <<>> THEN FALSE
    ELSE IF a = <<>> THEN TRUE
    ELSE IF Head(a) = Head(b) THEN StrLess(Tail(a), Tail(b))
    ELSE Code(Head(a)) < Code(Head(b))

\* the upper-case letter of each lower-case letter
ToUpper == [c \in {LowerCase[i] : i \in 1..Len(LowerCase)} |->
               UpperCase[CHOOSE i \in 1..Len(LowerCase) : LowerCase[i] = c]]

\* one character of str.upper()
UpperChar(c) == IF c \in DOMAIN ToUpper THEN ToUpper[c] ELSE c

\* str.upper()
Upper(s) == [i \in 1..Len(s) |-> UpperChar(s[i])]

CN_SUFFIXES ==
    << <<"u5206","u6790","u6cd5">>, <<"u5206","u6790","u6a21","u578b">>,
       <<"u5206","u6790">>, <<"u6a21","u578b">>, <<"u7406","u8bba">>,
       <<"u77e9","u9635">>, <<"u7b56","u7565">>, <<"u6218","u7565">>,
       <<"u65b9","u6cd5">>, <<"u4f53","u7cfb">>, <<"u6846","u67b6">>,
       <<"u6a21","u5f0f">> >>

\* the replace calls of _normalize_text
HalfWidthPunct(s) ==
    [i \in 1..Len(s) |->
        IF s[i] = "uff08" THEN "("
        ELSE IF s[i] = "uff09" THEN ")"
        ELSE IF s[i] = "uff0c" THEN ","
        ELSE IF s[i] = "u3002" THEN "."
        ELSE s[i]]

\* _normalize_text(s)
normalize_text(s) == HalfWidthPunct(CollapseWs(Strip(s)))

\* re.findall(r"[A-Za-z]+", s); cur is the run of letters being read
RECURSIVE LetterTokens(_, _)
LetterTokens(s, cur) ==
    LET done == IF cur = <<>> THEN <<>> ELSE <<cur>>
    IN  IF s = <<>> THEN done
        ELSE IF Head(s) \in Letters THEN LetterTokens(Tail(s), Append(cur, Head(s)))
        ELSE done \o LetterTokens(Tail(s), <<>>)

\* 2 <= len(t) <= 6
AcronymLen(t) == 2 <= Len(t) /\ Len(t) <= 6

\* t.isupper() and 2 <= len(t) <= 6, for a token of letters
UpperAcronym(t) == AcronymLen(t) /\ \A i \in 1..Len(t) : t[i] \in Range(UpperCase)

\* _extract_english_acronym(s)
extract_english_acronym(s) ==
    LET tokens == LetterTokens(s, <<>>)
        upper_tokens == SelectSeq(tokens, AcronymLen)
        all_upper == SelectSeq(tokens, UpperAcronym)
    IN  IF tokens = <<>> THEN <<>>
        ELSE IF all_upper # <<>> THEN all_upper[1]
        ELSE IF upper_tokens # <<>> THEN Upper(upper_tokens[1])
        ELSE <<>>

\* base.endswith(suf)
EndsWith(base, suf) ==
    Len(suf) <= Len(base) /\ SubSeq(base, Len(base) - Len(suf) + 1, Len(base)) = suf

\* the loop of _strip_cn_suffixes over the suffixes sufs
RECURSIVE StripSuffixes(_, _)
StripSuffixes(base, sufs) ==
    IF sufs = <<>> THEN base
    ELSE StripSuffixes(IF EndsWith(base, Head(sufs))
                       THEN SubSeq(base, 1, Len(base) - Len(Head(sufs)))
                       ELSE base,
                       Tail(sufs))

\* _strip_cn_suffixes(s)
strip_cn_suffixes(s) == StripSuffixes(s, CN_SUFFIXES)

\* [一-鿿A-Za-z0-9]
IsCoreChar(c) == c \in CJK \cup Letters \cup Range(Digits)

\* _chinese_core(s)
chinese_core(s) == strip_cn_suffixes(SelectSeq(normalize_text(s), IsCoreChar))

\* _signature(name)
signature(name) ==
    <<extract_english_acronym(normalize_text(name)), chinese_core(normalize_text(name))>>

\* the characters SequenceMatcher matches between a and b: for the names of
\* the model, the length of their longest common subsequence
RECURSIVE Matched(_, _)
Matched(a, b) ==
    IF a = <<>> \/ b = <<>> THEN 0
    ELSE IF Head(a) = Head(b) THEN 1 + Matched(Tail(a), Tail(b))
    ELSE LET m1 == Matched(Tail(a), b)
             m2 == Matched(a, Tail(b))
         IN  IF m1 >= m2 THEN m1 ELSE m2

\* int(round(n / d)), halves to the even integer
RoundDiv(n, d) ==
    LET q == n \div d
        r == n % d
    IN  IF 2 * r < d THEN q
        ELSE IF 2 * r > d THEN q + 1
        ELSE IF q % 2 = 0 THEN q ELSE q + 1

\* fuzz.ratio(a, b) of fuzzywuzzy: int(round(100 * 2 * M / T)), M the matched
\* characters and T the length of both strings
fuzz_ratio(a, b) ==
    IF a = b THEN 100
    ELSE IF a = <<>> \/ b = <<>> THEN 0
    ELSE RoundDiv(200 * Matched(a, b), Len(a) + Len(b))

\* ratio_threshold of the call _pairwise_merge(initial_groups, ratio_threshold=92)
RATIO_THRESHOLD == 92

\* names that are given to build_theory_mapping: "Porter", "Porters",
\* "Porters5" (each within 92 of the next, the first and the last not),
\* "SWOT" and "SWOT分析" (one signature), "SWOT法" (their acronym, another
\* core, within 89 and 73 of them), "swot" (the signature and the length of
\* "SWOT"), the blank " ", and None, which is not a string
NotAString == <<"#None">>

MapNameSeq ==
    << <<"P","o","r","t","e","r">>, <<"P","o","r","t","e","r","s">>,
       <<"P","o","r","t","e","r","s","5">>, <<"S","W","O","T">>,
       <<"S","W","O","T","u5206","u6790">>, <<"S","W","O","T","u6cd5">>,
       <<"s","w","o","t">>, <<" ">>, NotAString >>

MapNames == {MapNameSeq[i] : i \in 1..Len(MapNameSeq)}

\* most names in one call
MaxNames == 3

\* _signature(n) for the names of the model
SignatureTable == [n \in MapNames |-> signature(n)]

\* fuzz.ratio(a.lower(), b.lower()) for the names of the model
RatioTable == [pr \in MapNames \X MapNames |-> fuzz_ratio(Lower(pr[1]), Lower(pr[2]))]

\* any(fuzz.ratio(a.lower(), b.lower()) >= ratio_threshold for a in g for b in mg)
AnyPair(g, mg, ratio_threshold) ==
    \E a \in Range(g), b \in Range(mg) : RatioTable[<<a, b>>] >= ratio_threshold

\* the body of the loop of _pairwise_merge with every matching group extended
\* (no break)
PlaceGroupNoBreak(merged_groups, g, ratio_threshold) ==
    LET hits == {i \in 1..Len(merged_groups) : AnyPair(g, merged_groups[i], ratio_threshold)}
    IN  IF hits = {} THEN Append(merged_groups, g)
        ELSE [i \in 1..Len(merged_groups) |->
                 IF i \in hits THEN merged_groups[i] \o g ELSE merged_groups[i]]

\* the body of the loop of _pairwise_merge: g extends the first group of
\* merged_groups it has a pair with, or is appended
PlaceGroup(merged_groups, g, ratio_threshold) ==
    LET hits == {i \in 1..Len(merged_groups) : AnyPair(g, merged_groups[i], ratio_threshold)}
    IN  IF hits = {} THEN Append(merged_groups, g)
        ELSE LET h == CHOOSE i \in hits : \A j \in hits : i <= j
             IN  [merged_groups EXCEPT ![h] = @ \o g]

\* the loop of _pairwise_merge over groups
RECURSIVE MergeLoop(_, _, _)
MergeLoop(merged_groups, groups, ratio_threshold) ==
    IF groups = <<>> THEN merged_groups
    ELSE MergeLoop(PlaceGroup(merged_groups, Head(groups), ratio_threshold),
                   Tail(groups), ratio_threshold)

\* _pairwise_merge(groups, ratio_threshold)
pairwise_merge(groups, ratio_threshold) == MergeLoop(<<>>, groups, ratio_threshold)

\* list(dict.fromkeys(l))
RECURSIVE FromKeys(_)
FromKeys(l) ==
    IF l = <<>> THEN <<>>
    ELSE LET init == FromKeys(SubSeq(l, 1, Len(l) - 1))
             last == l[Len(l)]
         IN  IF last \in Range(init) THEN init ELSE Append(init, last)

\* variants.count(v)
Count(variants, v) == Cardinality({i \in 1..Len(variants) : variants[i] = v})

\* len(re.findall(r"[一-鿿]", v))
CnCount(v) == Len(SelectSeq(v, IsCJK))

\* score(v) < score(w) in _choose_canonical: tuples (cn_count, len, count, v)
ScoreLess(variants, v, w) ==
    IF CnCount(v) # CnCount(w) THEN CnCount(v) < CnCount(w)
    ELSE IF Len(v) # Len(w) THEN Len(v) < Len(w)
    ELSE IF Count(variants, v) # Count(variants, w)
         THEN Count(variants, v) < Count(variants, w)
    ELSE StrLess(v, w)

\* _choose_canonical(variants): sorted(variants, key=score, reverse=True)[0]
choose_canonical(variants) ==
    CHOOSE v \in Range(variants) : \A w \in Range(variants) : ~ScoreLess(variants, v, w)

\* the loop buckets[_signature(n)].append(n)
RECURSIVE Buckets(_, _)
Buckets(buckets, ns) ==
    IF ns = <<>> THEN buckets
    ELSE LET sig == SignatureTable[Head(ns)]
             old == IF sig \in DictKeys(buckets) THEN DictGet(buckets, sig) ELSE <<>>
         IN  Buckets(DictSet(buckets, sig, Append(old, Head(ns))), Tail(ns))

\* list(buckets.values())
Values(d) == [i \in 1..Len(d) |-> d[i][2]]

\* the loop that fills mapping from the merged groups
RECURSIVE FillMapping(_, _)
FillMapping(m, groups) ==
    IF groups = <<>> THEN m
    ELSE LET group == FromKeys(Head(groups))
             canonical == choose_canonical(group)
             IsVariant(v) == v # canonical
             variants_sorted == <<canonical>> \o SelectSeq(group, IsVariant)
         IN  FillMapping(DictSet(m, canonical, variants_sorted), Tail(groups))

\* n.strip() is not empty
NonBlank(n) == Strip(n) # <<>>

\* a filter that keeps every string
KeptName(n) == n # NotAString

\* isinstance(n, str) and n.strip()
IsName(n) == n # NotAString /\ NonBlank(n)

\* build_theory_mapping on all_names, the names of the store followed by
\* extra_theories
build_theory_mapping(all_names) ==
    LET kept == FromKeys(SelectSeq(all_names, IsName))
        initial_groups == Values(Buckets(<<>>, kept))
        coarse_merged == pairwise_merge(initial_groups, RATIO_THRESHOLD)
    IN  FillMapping(<<>>, coarse_merged)

\* lists of at most n names of MapNames
RECURSIVE NameLists(_)
NameLists(n) ==
    IF n = 0 THEN {<<>>}
    ELSE NameLists(n - 1)
         \cup {Append(l, x) : l \in {m \in NameLists(n - 1) : Len(m) = n - 1}, x \in MapNames}

\* the orders of a list
Orders(l) ==
    {[i \in 1..Len(l) |-> l[f[i]]] :
        f \in {g \in [1..Len(l) -> 1..Len(l)] : \A i, j \in 1..Len(l) : g[i] = g[j] => i = j}}

\* a list of names as a number, one digit a name, and back
NameCode(n) == CHOOSE i \in 1..Len(MapNameSeq) : MapNameSeq[i] = n

RECURSIVE ListCode(_)
ListCode(l) ==
    IF l = <<>> THEN 0
    ELSE NameCode(Head(l)) + (Len(MapNameSeq) + 1) * ListCode(Tail(l))

RECURSIVE CodedList(_)
CodedList(k) ==
    IF k % (Len(MapNameSeq) + 1) = 0 THEN <<>>
    ELSE <<MapNameSeq[k % (Len(MapNameSeq) + 1)]>> \o CodedList(k \div (Len(MapNameSeq) + 1))

\* build_theory_mapping for the lists of the model, by the number of the list
MappingTable ==
    [k \in 0..((Len(MapNameSeq) + 1) ^ MaxNames - 1) |-> build_theory_mapping(CodedList(k))]

\* build_theory_mapping(db, extra_theories) on a store with no name
Build ==
    /\ mapping = None
    /\ mapping' = Some(MappingTable[ListCode(names)])
    /\ first' = Some(MappingTable[ListCode(names)])
    /\ UNCHANGED <<names, normVars, concVars, storeVars, matchVars, tierVars, scoreVars, listVars>>

\* build_theory_mapping(db, extra_theories) with the same names in another
\* order
BuildShuffled ==
    /\ mapping # None
    /\ \E l \in Orders(names) :
          /\ names' = l
          /\ mapping' = Some(MappingTable[ListCode(l)])
    /\ UNCHANGED <<first, normVars, concVars, storeVars, matchVars, tierVars, scoreVars, listVars>>

MapInit ==
    /\ names \in NameLists(MaxNames)
    /\ mapping = None
    /\ first = None

MapNext ==
    \/ Build
    \/ BuildShuffled

----------------------------------------------------------------------------
(* ComprehensiveScorer.compute_comprehensive_score                          *)
(* A score is a rational <<numerator, denominator>> in lowest terms, the    *)
(* number the float of the code approximates.                               *)

RECURSIVE GCD(_, _)
GCD(a, b) == IF b = 0 THEN a ELSE GCD(b, a % b)

\* n / d in lowest terms, for n >= 0 and d > 0
Frac(n, d) == <<n \div GCD(n, d), d \div GCD(n, d)>>

FracAdd(x, y) == Frac(x[1] * y[2] + y[1] * x[2], x[2] * y[2])

FracMul(x, y) == Frac(x[1] * y[1], x[2] * y[2])

\* the weights of settings, in hundredths
THEORY_OVERLAP_WEIGHT == 40
SEMANTIC_SIMILARITY_WEIGHT == 30
KEYWORD_SIMILARITY_WEIGHT == 20
DOMAIN_SIMILARITY_WEIGHT == 10

\* self.weights of a scorer whose settings hold the weights t, s, k and d
\* (hundredths)
Weights(t, s, k, d) ==
    [theory_overlap |-> Frac(t, 100), semantic_similarity |-> Frac(s, 100),
     keyword_similarity |-> Frac(k, 100), domain_similarity |-> Frac(d, 100)]

\* the weights of the default settings
DefaultWeights ==
    Weights(THEORY_OVERLAP_WEIGHT, SEMANTIC_SIMILARITY_WEIGHT,
            KEYWORD_SIMILARITY_WEIGHT, DOMAIN_SIMILARITY_WEIGHT)

\* s.split(sep); cur is the piece being read
RECURSIVE SplitOn(_, _, _)
SplitOn(s, sep, cur) ==
    IF s = <<>> THEN <<cur>>
    ELSE IF Head(s) = sep THEN <<cur>> \o SplitOn(Tail(s), sep, <<>>)
    ELSE SplitOn(Tail(s), sep, Append(cur, Head(s)))

\* sep.join(l)
RECURSIVE Join(_, _)
Join(l, sep) ==
    IF l = <<>> THEN <<>>
    ELSE IF Len(l) = 1 THEN l[1]
    ELSE l[1] \o <<sep>> \o Join(Tail(l), sep)

\* the field 'theories' of a candidate: a list of names, or one string
AsList(l) == [form |-> "list", value |-> l]
AsString(l) == [form |-> "str", value |-> Join(l, ",")]

\* matched_theories of compute_comprehensive_score: the set it makes of the
\* field 'theories' of the candidate
MatchedTheorySet(field) ==
    IF field.form = "str"
    THEN IF field.value # <<>> THEN Range(SplitOn(field.value, ",", <<>>)) ELSE {}
    ELSE Range(field.value)

\* a replacement of the ASCII semicolon only
KeywordSeparatorsAscii(s) ==
    [i \in 1..Len(s) |-> IF s[i] = ";" THEN "," ELSE s[i]]

\* split_kw(s): the separators become ",", the pieces are stripped and the
\* empty ones dropped
KeywordSeparators(s) ==
    [i \in 1..Len(s) |-> IF s[i] \in {"uff1b", ";", "uff0c"} THEN "," ELSE s[i]]

split_kw(s) ==
    LET pieces == SplitOn(KeywordSeparators(s), ",", <<>>)
        stripped == [i \in 1..Len(pieces) |-> Strip(pieces[i])]
    IN  SelectSeq(stripped, LAMBDA k : k # <<>>)

\* _calculate_keyword_similarity(keywords1, keywords2)
calculate_keyword_similarity(keywords1, keywords2) ==
    IF keywords1 = <<>> \/ keywords2 = <<>> THEN Frac(0, 1)
    ELSE LET kw1 == Range(split_kw(keywords1))
             kw2 == Range(split_kw(keywords2))
         IN  IF kw1 = {} \/ kw2 = {} THEN Frac(0, 1)
             ELSE Frac(Cardinality(kw1 \cap kw2), Cardinality(kw1 \cup kw2))

\* a domain similarity that counts each equal field as a whole point
DomainSimilarityWhole(case1, case2) ==
    FracAdd(IF case1.industry # "" /\ case2.industry # "" /\ case1.industry = case2.industry
            THEN Frac(1, 1) ELSE Frac(0, 1),
            IF case1.subject # "" /\ case2.subject # "" /\ case1.subject = case2.subject
            THEN Frac(1, 1) ELSE Frac(0, 1))

\* _calculate_domain_similarity(case1, case2); "" is a missing field
calculate_domain_similarity(case1, case2) ==
    FracAdd(IF case1.industry # "" /\ case2.industry # "" /\ case1.industry = case2.industry
            THEN Frac(1, 2) ELSE Frac(0, 1),
            IF case1.subject # "" /\ case2.subject # "" /\ case1.subject = case2.subject
            THEN Frac(1, 2) ELSE Frac(0, 1))

\* compute_comprehensive_score(new_case, matched_case, exact_matches,
\* semantic_score) of a scorer with self.weights = weights; matched_theories
\* is kept as the set the returned list is made of (the order of that list is
\* the iteration order of a set)
compute_comprehensive_score(weights, new_case, matched_case, semantic_score) ==
    LET new_theories == Range(new_case.theories)
        matched_theories == MatchedTheorySet(matched_case.theories)
        theory_overlap ==
            IF new_theories # {}
            THEN Frac(Cardinality(new_theories \cap matched_theories),
                      Cardinality(new_theories))
            ELSE Frac(0, 1)
        semantic_similarity ==
            IF semantic_score = None THEN Frac(0, 1) ELSE semantic_score[1]
        keyword_similarity ==
            calculate_keyword_similarity(new_case.keywords, matched_case.keywords)
        domain_similarity == calculate_domain_similarity(new_case, matched_case)
        final_score ==
            FracAdd(FracAdd(FracMul(theory_overlap, weights.theory_overlap),
                            FracMul(semantic_similarity, weights.semantic_similarity)),
                    FracAdd(FracMul(keyword_similarity, weights.keyword_similarity),
                            FracMul(domain_similarity, weights.domain_similarity)))
    IN  [final_score |-> final_score,
         theory_overlap |-> theory_overlap,
         semantic_similarity |-> semantic_similarity,
         keyword_similarity |-> keyword_similarity,
         domain_similarity |-> domain_similarity,
         matched_theories |-> new_theories \cap matched_theories]

\* theory names of cases: "SWOT分析", "SWOT", "波特五力模型", "4P理论"
ScoreNames ==
    { <<"S","W","O","T","u5206","u6790">>, <<"S","W","O","T">>,
      <<"u6ce2","u7279","u4e94","u529b","u6a21","u578b">>, <<"4","P","u7406","u8bba">> }

\* most theories of the new case
MaxScoreTheories == 2

\* the theory lists of a new case
RECURSIVE ScoreLists(_)
ScoreLists(n) ==
    IF n = 0 THEN {<<>>}
    ELSE ScoreLists(n - 1)
         \cup {Append(l, x) : l \in {m \in ScoreLists(n - 1) : Len(m) = n - 1}, x \in ScoreNames}

\* the theory lists of a candidate: none, "SWOT" and "4P理论", "SWOT分析",
\* "波特五力模型" and "SWOT分析"
CandidateLists ==
    { <<>>,
      << <<"S","W","O","T">>, <<"4","P","u7406","u8bba">> >>,
      << <<"S","W","O","T","u5206","u6790">> >>,
      << <<"u6ce2","u7279","u4e94","u529b","u6a21","u578b">>,
         <<"S","W","O","T","u5206","u6790">> >> }

\* keyword strings: none, "a;b", "a, c"
NewKeywords == { <<>>, <<"a", ";", "b">> }
CandidateKeywords == { <<>>, <<"a", ";", "b">>, <<"a", ",", " ", "c">> }

\* industry and subject of the new case and of a candidate
NewDomain == [industry |-> "x", subject |-> "y"]
CandidateDomains ==
    { [industry |-> "x", subject |-> "y"], [industry |-> "", subject |-> "y"],
      [industry |-> "z", subject |-> "w"] }

\* semantic_score: None, or a similarity
SemanticScores == { None, <<Frac(1, 2)>>, <<Frac(1, 1)>> }

\* the weights a scorer is built with: the defaults, all the weight on the
\* domain, and weights that sum to 2
WeightSets == { DefaultWeights, Weights(0, 0, 0, 100), Weights(50, 50, 50, 50) }

\* a case: its theories, keywords, industry and subject
Case(case_theories_field, keywords, domain) ==
    [theories |-> case_theories_field, keywords |-> keywords,
     industry |-> domain.industry, subject |-> domain.subject]

\* compute_comprehensive_score on a new case and a candidate, once (it keeps
\* no state); candidate is the list of the theories of the candidate, given
\* as a list or as a string
ComputeComprehensiveScore ==
    /\ ScoreIdle
    /\ \E l \in ScoreLists(MaxScoreTheories), candidate \in CandidateLists,
          as_string \in BOOLEAN, k1 \in NewKeywords, k2 \in CandidateKeywords,
          d2 \in CandidateDomains, semantic_score \in SemanticScores,
          weights \in WeightSets :
          LET new_case == Case(l, k1, NewDomain)
              matched_case ==
                  Case(IF as_string THEN AsString(candidate) ELSE AsList(candidate), k2, d2)
          IN  scored' = <<[weights |-> weights,
                           new_case |-> new_case,
                           matched_case |-> matched_case,
                           candidate |-> candidate,
                           semantic_score |-> semantic_score,
                           result |-> compute_comprehensive_score(weights, new_case,
                                                                  matched_case,
                                                                  semantic_score)]>>
    /\ UNCHANGED <<normVars, concVars, storeVars, matchVars, tierVars, mapVars, listVars,
                   ranked, innovation, keyworded>>

\* x < y, for two scores
FracLess(x, y) == x[1] * y[2] < y[1] * x[2]

\* one step of a descending sort that puts e before the entries that have
\* its score
RECURSIVE InsertBeforeTies(_, _)
InsertBeforeTies(sorted, e) ==
    IF sorted = <<>> THEN <<e>>
    ELSE IF ~FracLess(e.scores.final_score, Head(sorted).scores.final_score)
         THEN <<e>> \o sorted
         ELSE <<Head(sorted)>> \o InsertBeforeTies(Tail(sorted), e)

\* list.sort(key=final_score, reverse=True), one entry at a time: e goes
\* after every entry whose score is not less than its own (the sort is
\* stable)
RECURSIVE InsertByScore(_, _)
InsertByScore(sorted, e) ==
    IF sorted = <<>> THEN <<e>>
    ELSE IF FracLess(Head(sorted).scores.final_score, e.scores.final_score)
         THEN <<e>> \o sorted
         ELSE <<Head(sorted)>> \o InsertByScore(Tail(sorted), e)

\* scored.sort(key=lambda x: x['scores']['final_score'], reverse=True)
RECURSIVE SortByScore(_)
SortByScore(l) ==
    IF l = <<>> THEN <<>>
    ELSE InsertByScore(SortByScore(SubSeq(l, 1, Len(l) - 1)), l[Len(l)])

\* l[:k]
Slice(l, k) ==
    IF k >= 0
    THEN SubSeq(l, 1, IF k < Len(l) THEN k ELSE Len(l))
    ELSE SubSeq(l, 1, IF Len(l) + k > 0 THEN Len(l) + k ELSE 0)

\* the entry rank_similar_cases makes of one semantic match
ScoredEntry(weights, new_case, match) ==
    [case_id |-> match.case_id,
     metadata |-> match.metadata,
     scores |-> compute_comprehensive_score(weights, new_case, match.metadata,
                                            Some(match.similarity))]

\* rank_similar_cases(new_case, semantic_matches, exact_matches, top_k)
rank_similar_cases(weights, new_case, semantic_matches, top_k) ==
    Slice(SortByScore([i \in 1..Len(semantic_matches) |->
                          ScoredEntry(weights, new_case, semantic_matches[i])]),
          top_k)

\* the new case that is ranked against: "SWOT分析", keywords "a;b"
RankedCase ==
    Case(<< <<"S","W","O","T","u5206","u6790">> >>, <<"a", ";", "b">>, NewDomain)

\* semantic matches: two with the same metadata and similarity (final_score
\* 0.65 each), one with a higher similarity and no theory (0.40), one with
\* the same theory and keywords (0.85)
Match(case_id, ts, keywords, similarity) ==
    [case_id |-> case_id,
     metadata |-> Case(AsList(ts), keywords, NewDomain),
     similarity |-> similarity]

SemanticMatches ==
    { Match("1", << <<"S","W","O","T","u5206","u6790">> >>, <<>>, Frac(1, 2)),
      Match("2", << <<"S","W","O","T","u5206","u6790">> >>, <<>>, Frac(1, 2)),
      Match("3", <<>>, <<>>, Frac(1, 1)),
      Match("4", << <<"S","W","O","T","u5206","u6790">> >>, <<"a", ";", "b">>, Frac(1, 2)) }

\* most semantic matches in one call
MaxMatches == 3

\* lists of at most n semantic matches
RECURSIVE MatchLists(_)
MatchLists(n) ==
    IF n = 0 THEN {<<>>}
    ELSE MatchLists(n - 1)
         \cup {Append(l, x) : l \in {m \in MatchLists(n - 1) : Len(m) = n - 1},
                               x \in SemanticMatches}

\* rank_similar_cases, once, with top_k from -1 to one more than the matches
RankSimilarCases ==
    /\ ScoreIdle
    /\ \E semantic_matches \in MatchLists(MaxMatches), top_k \in -1..(MaxMatches + 1) :
          ranked' = <<[weights |-> DefaultWeights,
                       new_case |-> RankedCase,
                       semantic_matches |-> semantic_matches,
                       top_k |-> top_k,
                       result |-> rank_similar_cases(DefaultWeights, RankedCase,
                                                     semantic_matches, top_k)]>>
    /\ UNCHANGED <<normVars, concVars, storeVars, matchVars, tierVars, mapVars, listVars,
                   scored, innovation, keyworded>>

\* calculate_innovation_score: the tier of a match count
InnovationTier(c) ==
    IF c <= novel_max_usage THEN "novel"
    ELSE IF c < high_freq_min_usage THEN "common"
    ELSE "high_freq"

\* (exact_matches.get(t, {}) or {}).get('match_count', 0); exact_matches is
\* a function from the matched names to their match_count
MatchCount(exact_matches, t) ==
    IF t \in DOMAIN exact_matches THEN exact_matches[t] ELSE 0

\* the theories of a tier, in the order of the list
TierList(ts, exact_matches, tier) ==
    SelectSeq(ts, LAMBDA t : InnovationTier(MatchCount(exact_matches, t)) = tier)

\* the sum with every tier at weight 1.0
InnovationSumUnweighted(novel, common, high_freq, total) ==
    FracAdd(FracAdd(FracMul(Frac(novel, total), Frac(100, 1)),
                    FracMul(Frac(common, total), Frac(100, 1))),
            FracMul(Frac(high_freq, total), Frac(100, 1)))

\* (len(novel) / total) * 100 * 1.0 + (len(common) / total) * 100 * 0.5
\*   + (len(high_freq) / total) * 100 * 0.2
InnovationSum(novel, common, high_freq, total) ==
    FracAdd(FracAdd(FracMul(FracMul(Frac(novel, total), Frac(100, 1)), Frac(1, 1)),
                    FracMul(FracMul(Frac(common, total), Frac(100, 1)), Frac(1, 2))),
            FracMul(FracMul(Frac(high_freq, total), Frac(100, 1)), Frac(1, 5)))

\* round(x, 1): the nearest tenth, a half going to the even tenth (for lists
\* of up to 23 theories the float sum rounds as the exact sum does)
RoundTenth(x) == Frac(RoundDiv(10 * x[1], x[2]), 10)

\* calculate_innovation_score(new_case, exact_matches), ts the theories of
\* new_case
calculate_innovation_score(ts, exact_matches) ==
    IF ts = <<>>
    THEN [innovation_score |-> Frac(0, 1),
          novel_theories |-> <<>>,
          common_theories |-> <<>>,
          high_frequency_theories |-> <<>>,
          novel_ratio |-> Frac(0, 1),
          common_ratio |-> Frac(0, 1),
          high_freq_ratio |-> Frac(0, 1)]
    ELSE LET novel == TierList(ts, exact_matches, "novel")
             common == TierList(ts, exact_matches, "common")
             high_freq == TierList(ts, exact_matches, "high_freq")
             total == Len(ts)
         IN  [innovation_score |->
                 RoundTenth(InnovationSum(Len(novel), Len(common), Len(high_freq), total)),
              novel_theories |-> novel,
              common_theories |-> common,
              high_frequency_theories |-> high_freq,
              novel_ratio |-> Frac(Len(novel), total),
              common_ratio |-> Frac(Len(common), total),
              high_freq_ratio |-> Frac(Len(high_freq), total)]

\* theories of a new case: three with a match result (match_count 1, 3 and
\* 6) and one without
InnovationNames == { <<"A">>, <<"B">>, <<"C">>, <<"D">> }

InnovationMatches == (<<"A">> :> 1) @@ (<<"B">> :> 3) @@ (<<"C">> :> 6)

\* most theories of a new case, the cases of TiedCases apart
MaxInnovationTheories == 3

RECURSIVE InnovationLists(_)
InnovationLists(n) ==
    IF n = 0 THEN {<<>>}
    ELSE InnovationLists(n - 1)
         \cup {Append(l, x) : l \in {m \in InnovationLists(n - 1) : Len(m) = n - 1},
                               x \in InnovationNames}

\* cases of eight theories whose sum lies halfway between two tenths under
\* the default thresholds (61.25 and 31.25)
TiedCases ==
    { << <<"A">>, <<"A">>, <<"A">>, <<"B">>, <<"B">>, <<"B">>, <<"C">>, <<"C">> >>,
      << <<"B">>, <<"B">>, <<"B">>, <<"C">>, <<"C">>, <<"C">>, <<"C">>, <<"C">> >> }

\* calculate_innovation_score, once
CalculateInnovationScore ==
    /\ innovation = None
    /\ \E ts \in InnovationLists(MaxInnovationTheories) \cup TiedCases :
          innovation' = <<[theories |-> ts,
                           exact_matches |-> InnovationMatches,
                           result |-> calculate_innovation_score(ts, InnovationMatches)]>>
    /\ UNCHANGED <<normVars, concVars, storeVars, matchVars, tierVars, mapVars, listVars,
                   scored, ranked, keyworded>>

\* get_frequency_distribution: the tier whose counter a match_count raises
DistributionTier(c) ==
    IF c <= novel_max_usage THEN "novel"
    ELSE IF c < high_freq_min_usage THEN "common"
    ELSE "high_freq"

\* the tier calculate_innovation_score gives to a theory of match_count c
ClassifyInnovation ==
    /\ \E c \in 0..MaxCount :
          tiers' = Classification("calculate_innovation_score", c, InnovationTier(c))
    /\ UNCHANGED <<normVars, concVars, storeVars, matchVars, mapVars, scoreVars, listVars>>

\* the tier get_frequency_distribution counts a result of match_count c in
GetFrequencyDistribution ==
    /\ \E c \in 0..MaxCount :
          tiers' = Classification("get_frequency_distribution", c, DistributionTier(c))
    /\ UNCHANGED <<normVars, concVars, storeVars, matchVars, mapVars, scoreVars, listVars>>

TierNext ==
    \/ MergeRank
    \/ GetFrequencyInfo
    \/ ClassifyInnovation
    \/ GetFrequencyDistribution

InnovationNext == CalculateInnovationScore

ScoreInit == ScoreIdle

\* keyword strings: none, "市场,品牌,创新", "市场;创新", "a； b，，c",
\* "b ;a", " ,；" and "a b"
KeywordStrings ==
    { <<>>,
      <<"u5e02","u573a",",","u54c1","u724c",",","u521b","u65b0">>,
      <<"u5e02","u573a",";","u521b","u65b0">>,
      <<"a","uff1b"," ","b","uff0c","uff0c","c">>,
      <<"b"," ",";","a">>,
      <<" ",",","uff1b">>,
      <<"a"," ","b">> }

\* _calculate_keyword_similarity, once
CalculateKeywordSimilarity ==
    /\ ScoreIdle
    /\ \E keywords1 \in KeywordStrings, keywords2 \in KeywordStrings :
          keyworded' = <<[keywords1 |-> keywords1,
                          keywords2 |-> keywords2,
                          result |-> calculate_keyword_similarity(keywords1, keywords2)]>>
    /\ UNCHANGED <<normVars, concVars, storeVars, matchVars, tierVars, mapVars, listVars,
                   scored, ranked, innovation>>

ScoreNext ==
    \/ ComputeComprehensiveScore
    \/ RankSimilarCases
    \/ CalculateKeywordSimilarity

----------------------------------------------------------------------------
(* TheoryNormalizer.normalize_list                                          *)

\* the loop of normalize_list with no seen set: every canonical is appended
RECURSIVE NormalizeLoopNoSeen(_, _, _, _)
NormalizeLoopNoSeen(rev, seen, result, ts) ==
    IF ts = <<>> THEN result
    ELSE NormalizeLoopNoSeen(rev, seen, Append(result, Lookup(rev, Head(ts))), Tail(ts))

\* the loop of normalize_list over the names ts, on the index rev
RECURSIVE NormalizeLoop(_, _, _, _)
NormalizeLoop(rev, seen, result, ts) ==
    IF ts = <<>> THEN result
    ELSE LET n == Lookup(rev, Head(ts))
         IN  IF n \notin seen
             THEN NormalizeLoop(rev, seen \cup {n}, Append(result, n), Tail(ts))
             ELSE NormalizeLoop(rev, seen, result, Tail(ts))

\* a list argument, or None
GivenList(l) == [given |-> TRUE, items |-> l]
NoList == [given |-> FALSE, items |-> <<>>]

\* theory_list or []
OrEmpty(theory_list) == IF theory_list.given THEN theory_list.items ELSE <<>>

\* normalize_list(theory_list) on the index rev
normalize_list(rev, theory_list) == NormalizeLoop(rev, {}, <<>>, OrEmpty(theory_list))

\* names given in a list: "swot", "SWOT分析" and " Xy"
ListNames == { <<"s","w","o","t">>, <<"S","W","O","T","u5206","u6790">>, <<" ","X","y">> }

\* most names in one list
MaxListLen == 3

\* lists of at most n names of ListNames
RECURSIVE TheoryLists(_)
TheoryLists(n) ==
    IF n = 0 THEN {<<>>}
    ELSE TheoryLists(n - 1)
         \cup {Append(l, x) : l \in {m \in TheoryLists(n - 1) : Len(m) = n - 1}, x \in ListNames}

\* normalize_list(theory_list), once; the index is built by the first
\* normalize call of the loop, so an empty list leaves it as it is
NormalizeList ==
    /\ listed = None
    /\ \E theory_list \in {NoList} \cup {GivenList(l) : l \in TheoryLists(MaxListLen)} :
          LET b == IF OrEmpty(theory_list) = <<>>
                   THEN [dyn |-> dynamic_mapping, rev |-> reverse_mapping]
                   ELSE build_reverse_mapping
          IN  /\ dynamic_mapping' = b.dyn
              /\ reverse_mapping' = b.rev
              /\ listed' = <<[theory_list |-> theory_list,
                              result |-> IF OrEmpty(theory_list) = <<>> THEN <<>>
                                         ELSE normalize_list(b.rev[1], theory_list)]>>
    /\ UNCHANGED <<mapping_file, calls, loaded, source, added, concVars, storeVars, matchVars,
                   tierVars, mapVars, scoreVars>>

ListInit == NormInit /\ ListIdle

ListNext == NormalizeList

----------------------------------------------------------------------------
(* Claims on the normalizer                                                 *)

\* the index keys a group c -> variants claims for c
GroupKeys(g) == {Key(v) : v \in Range(g[2]) \cup {g[1]}}

\* an artifact in which no index key belongs to two groups
IsPartition(groups) ==
    \A i, j \in 1..Len(groups) :
        i # j => GroupKeys(groups[i]) \cap GroupKeys(groups[j]) = {}

\* C1: normalize(normalize(x)) == normalize(x): a normalize call whose
\* argument is the result of the normalize call before it (no mapping change
\* in between) returns its argument.
C1_Idempotent ==
    (calls # <<>> /\ calls[1].op = "normalize" /\ calls[1].chained)
        => calls[1].res = calls[1].arg

\* C10: after load_dynamic_mapping(path) on a well-formed artifact, and until
\* the next load, normalize(v) returns c for every group c -> [.., v, ..] of
\* the artifact, and get_all_variants(c) returns that group.
C10_LoadTakesEffect ==
    (loaded # None /\ IsPartition(loaded[1]) /\ calls # <<>>)
        => \A i \in 1..Len(loaded[1]) :
             LET c == loaded[1][i][1]
                 vs == loaded[1][i][2]
             IN  /\ (calls[1].op = "normalize" /\ calls[1].arg \in Range(vs) \cup {c})
                        => calls[1].res = c
                 /\ (calls[1].op = "get_all_variants" /\ calls[1].arg = c)
                        => Range(calls[1].res) = Range(vs) \cup {c}

\* C27: after add_mapping(standard, variants), and until the next
\* load_dynamic_mapping, normalize(v) returns standard for every v in
\* variants, and get_all_variants(standard) returns those variants plus
\* standard, whatever the mapping file holds.
C27_AddMappingTakesEffect ==
    (added # None /\ calls # <<>>) =>
        LET standard == added[1].standard_name
            variants == added[1].variants
        IN  /\ (calls[1].op = "normalize" /\ calls[1].arg \in Range(variants))
                   => calls[1].res = standard
            /\ (calls[1].op = "get_all_variants" /\ calls[1].arg = standard)
                   => Range(calls[1].res) = Range(variants) \cup {standard}

\* C28: for every canonical c of the dynamic mapping or of the built-in
\* table, every v that get_all_variants(c) returns has normalize(v) = c.
C28_VariantsRoundTrip ==
    (/\ calls # <<>>
     /\ calls[1].op = "get_all_variants"
     /\ reverse_mapping # None
     /\ calls[1].arg \in DictKeys(dynamic_mapping) \cup DictKeys(BUILTIN_MAPPING)) =>
        \A v \in Range(calls[1].res) :
            Lookup(reverse_mapping[1], v) = calls[1].arg

\* C29: with the calls run one at a time, the reverse index is null or equal
\* to the index derived from the current dynamic mapping and the built-in
\* table; every operation that changes the dynamic mapping leaves the index
\* null; and an index that is built is not rebuilt by a read.
C29_IndexCoherence ==
    [][/\ reverse_mapping' # None => reverse_mapping'[1] = ReverseOf(dynamic_mapping')
       /\ dynamic_mapping' # dynamic_mapping => reverse_mapping' = None
       /\ (reverse_mapping # None /\ reverse_mapping' # None)
              => reverse_mapping' = reverse_mapping]_vars

\* C4: with a single writer in load_dynamic_mapping / add_mapping, a reader
\* in normalize / get_all_variants never fails, and at its read the reverse
\* index is never missing (None).
C4_ReaderNeverFails ==
    /\ rres.status \in {"none", "ok"}
    /\ (rpc = "read" /\ rcall.op = "normalize") => reverse_mapping # None

\* the built-in canonicals of the groups that hold the surface form v
BuiltinCanonicals(v) ==
    {BUILTIN_MAPPING[i][1] :
        i \in {j \in 1..Len(BUILTIN_MAPPING) :
                  v \in Range(BUILTIN_MAPPING[j][2]) \cup {BUILTIN_MAPPING[j][1]}}}

\* the surface forms of the built-in table
BuiltinForms ==
    UNION {Range(BUILTIN_MAPPING[j][2]) \cup {BUILTIN_MAPPING[j][1]} :
              j \in 1..Len(BUILTIN_MAPPING)}

\* C11: after load_dynamic_mapping read a missing or malformed artifact, and
\* until the mapping is changed again, the dynamic mapping is empty and
\* normalize returns for every surface form of the built-in table the
\* canonical of its built-in group (the index, once built, holds it, and so
\* does every answered call); no operation of the normalizer ends in a raise.
C11_GracefulFallback ==
    (source # None /\ source[1].kind # "map") =>
        /\ dynamic_mapping = <<>>
        /\ reverse_mapping # None =>
              \A v \in BuiltinForms :
                 BuiltinCanonicals(v) = {Lookup(reverse_mapping[1], v)}
        /\ (calls # <<>> /\ calls[1].op = "normalize" /\ calls[1].arg \in BuiltinForms)
              => BuiltinCanonicals(calls[1].arg) = {calls[1].res}

\* a name with every run of whitespace cut to its first character
RECURSIVE SquashWs(_)
SquashWs(s) ==
    IF Len(s) < 2 THEN s
    ELSE IF s[1] \in WhiteSpace /\ s[2] \in WhiteSpace
         THEN SquashWs(<<s[1]>> \o SubSeq(s, 3, Len(s)))
         ELSE <<s[1]>> \o SquashWs(Tail(s))

\* what is left of a name when letter case, leading and trailing whitespace
\* and the length of inner whitespace runs are disregarded
Fold(s) == Lower(Strip(SquashWs(s)))

\* the surface forms the normalizer knows: those of the dynamic mapping and
\* those of the built-in table
KnownForms ==
    BuiltinForms
      \cup UNION {Range(dynamic_mapping[j][2]) \cup {dynamic_mapping[j][1]} :
                    j \in 1..Len(dynamic_mapping)}

\* C12: normalize(x) returns the canonical of every known surface form that
\* differs from x only in letter case, in leading or trailing whitespace, or
\* in the length of inner whitespace runs.
C12_CaseWhitespaceInsensitive ==
    (calls # <<>> /\ calls[1].op = "normalize" /\ reverse_mapping # None) =>
        \A v \in KnownForms :
            Fold(v) = Fold(calls[1].arg) => calls[1].res = Lookup(reverse_mapping[1], v)

\* the canonicals of the index: the names normalize resolves a key to
Canonicals(rev) == {rev[k] : k \in DOMAIN rev}

\* C13: get_all_variants(c), for a canonical c, contains c and, compared by
\* index key (lower-cased and trimmed), every known surface form v with
\* normalize(v) = c, from the dynamic mapping or from the built-in table.
C13_VariantsComplete ==
    (/\ calls # <<>>
     /\ calls[1].op = "get_all_variants"
     /\ reverse_mapping # None
     /\ calls[1].arg \in Canonicals(reverse_mapping[1])) =>
        LET c == calls[1].arg
            keys == {Key(w) : w \in Range(calls[1].res)}
        IN  /\ c \in Range(calls[1].res)
            /\ \A v \in KnownForms :
                  Lookup(reverse_mapping[1], v) = c => Key(v) \in keys

\* the groups of an ordered dict that claim the index key k
Claiming(d, k) == {i \in 1..Len(d) : k \in GroupKeys(d[i])}

\* C14: normalize(x), k the index key of x, returns the canonical of a
\* dynamic group when the dynamic mapping has an entry for k, the built-in
\* canonical of k only when it has none, and x when neither table has k.
C14_DynamicPrecedence ==
    (calls # <<>> /\ calls[1].op = "normalize") =>
        LET k == Key(calls[1].arg)
            dyn == Claiming(dynamic_mapping, k)
            builtin == Claiming(BUILTIN_MAPPING, k)
        IN  IF dyn # {}
            THEN calls[1].res \in {dynamic_mapping[i][1] : i \in dyn}
            ELSE IF builtin # {}
                 THEN calls[1].res \in {BUILTIN_MAPPING[i][1] : i \in builtin}
                 ELSE calls[1].res = calls[1].arg

\* normalize answered for a key both tables claim, under different canonicals
C14_Witness ==
    /\ calls # <<>>
    /\ calls[1].op = "normalize"
    /\ Claiming(dynamic_mapping, Key(calls[1].arg)) # {}
    /\ Claiming(BUILTIN_MAPPING, Key(calls[1].arg)) # {}
    /\ calls[1].res \notin
          {BUILTIN_MAPPING[i][1] : i \in Claiming(BUILTIN_MAPPING, Key(calls[1].arg))}

\* the position of the first element of the sequence q that equals x
FirstAt(q, x) == CHOOSE i \in 1..Len(q) : q[i] = x /\ \A j \in 1..(i - 1) : q[j] # x

\* the canonicals of the names of a list, in the order of the list
CanonicalsOf(rev, ts) == [i \in 1..Len(ts) |-> Lookup(rev, ts[i])]

\* C15: normalize_list returns the canonicals of its input without
\* duplicates, each once and in the order of their first occurrence in the
\* input; the empty list and a missing list give the empty list.
C15_FirstSeenOrder ==
    listed # None =>
        LET ts == OrEmpty(listed[1].theory_list)
            res == listed[1].result
        IN  IF ts = <<>> THEN res = <<>>
            ELSE LET cs == CanonicalsOf(reverse_mapping[1], ts)
                 IN  /\ \A i, j \in 1..Len(res) : res[i] = res[j] => i = j
                     /\ Range(res) = Range(cs)
                     /\ \A i, j \in 1..Len(res) :
                           i < j => FirstAt(cs, res[i]) < FirstAt(cs, res[j])

\* a list in which a canonical comes back, under another spelling, after a
\* different canonical
C15_Witness ==
    /\ listed # None
    /\ Len(listed[1].result) >= 2
    /\ LET ts == OrEmpty(listed[1].theory_list)
       IN  \E i, j \in 1..Len(ts) :
              /\ i + 1 < j
              /\ ts[i] # ts[j]
              /\ Lookup(reverse_mapping[1], ts[i]) = Lookup(reverse_mapping[1], ts[j])
              /\ Lookup(reverse_mapping[1], ts[i + 1]) # Lookup(reverse_mapping[1], ts[i])

----------------------------------------------------------------------------
(* Claims on the match engine                                               *)

\* the identity of a case: its id, else its code, else its name
IsPresent(v) == v # ""
Identity(case) == Head(SelectSeq(<<case.id, case.code, case.name>>, IsPresent))

\* the rows the store returned to the call kept in merged: those of the
\* variants whose query did not raise
ReturnedRows ==
    UNION {Range(get_cases_by_theory(v)) :
              v \in Range(merged[1].result.variants) \ merged[1].failing}

\* C2: usage_count of merge_theory_results(name) is the number of distinct
\* case identities the store returned for the variants of normalize(name),
\* and every such case is once in the cases list.
C2_DedupCorrect ==
    merged # None =>
        LET r == merged[1].result
            ids == {Identity(c) : c \in ReturnedRows}
        IN  /\ r.theory_name = Lookup(reverse_mapping[1], merged[1].name)
            /\ r.variants = VariantsOf(dynamic_mapping, r.theory_name)
            /\ r.usage_count = Cardinality(ids)
            /\ Len(r.cases) = r.usage_count
            /\ {Identity(r.cases[i]) : i \in 1..Len(r.cases)} = ids
            /\ \A i, j \in 1..Len(r.cases) :
                  Identity(r.cases[i]) = Identity(r.cases[j]) => i = j

\* a call whose store returned one case under two variants of the canonical
C2_Witness ==
    /\ merged # None
    /\ \E v1, v2 \in Range(merged[1].result.variants) \ merged[1].failing :
          /\ v1 # v2
          /\ Range(get_cases_by_theory(v1)) \cap Range(get_cases_by_theory(v2)) # {}
    /\ merged[1].result.usage_count > 0

\* C3: a failure of the case store during a match, or of the vector store
\* during a search, reaches the caller as a failure: no call that met one
\* returns a result.
C3_FailureSurfaces ==
    /\ mstatus = "returned" => ~raised
    /\ (mstatus = "idle" /\ merged # None) => merged[1].failing = {}
    /\ (search # None /\ search[1].collection_raises)
          => search[1].result.outcome = "raised"

\* C9: match_theories gives each input name one outcome: no name is a key of
\* both returned maps, and every key of either map is an input name.
C9_OneOutcome ==
    mstatus = "returned" =>
        /\ DOMAIN exact_results \cap DOMAIN fuzzy_results = {}
        /\ (DOMAIN exact_results \cup DOMAIN fuzzy_results) \subseteq Range(theories)

\* the corpus the fallback of the current call works on
Corpus == IF all_theories_cache = None THEN get_all_theory_names ELSE all_theories_cache[1]

\* the name contains the input: both whitespace-normalized, case ignored
ClaimContains(name, input) ==
    IsSubstring(Lower(MatchForm(input)), Lower(MatchForm(name)))

\* the name has the ideographic part or the latin part of the input; the
\* latin parts are compared as they are, or with case ignored
ClaimSamePart(name, input, caseless) ==
    \/ /\ ChinesePart(input) # <<>>
       /\ ChinesePart(name) = ChinesePart(input)
    \/ /\ EnglishPart(input) # <<>>
       /\ IF caseless THEN Lower(EnglishPart(name)) = Lower(EnglishPart(input))
                      ELSE EnglishPart(name) = EnglishPart(input)

\* the hit of the fallback: the first name containing the input, otherwise
\* the first name with one of its parts
ClaimHit(corpus, input, caseless) ==
    LET c == {i \in 1..Len(corpus) : ClaimContains(corpus[i], input)}
        p == {i \in 1..Len(corpus) : ClaimSamePart(corpus[i], input, caseless)}
    IN  IF c # {} THEN Some(corpus[CHOOSE i \in c : \A j \in c : i <= j])
        ELSE IF p # {} THEN Some(corpus[CHOOSE i \in p : \A j \in p : i <= j])
        ELSE None

\* the aggregation over the canonical of a name when no store query fails
Aggregate(name) == merge_theory_results(build_reverse_mapping, name, {})

\* what a returned call whose store queries all succeeded holds for the
\* input theory
FallbackOutcome(theory, caseless) ==
    LET agg == Aggregate(theory)
        hit == ClaimHit(Corpus, theory, caseless)
    IN  IF agg.usage_count > 0
        THEN /\ theory \in DOMAIN exact_results
             /\ theory \notin DOMAIN fuzzy_results
        ELSE /\ theory \notin DOMAIN exact_results
             /\ IF hit # None /\ Aggregate(hit[1]).usage_count > 0
                THEN /\ theory \in DOMAIN fuzzy_results
                     /\ fuzzy_results[theory].matched_theory = Aggregate(hit[1]).theory_name
                     /\ fuzzy_results[theory].match_count = Aggregate(hit[1]).usage_count
                     /\ fuzzy_results[theory].cases = Aggregate(hit[1]).cases
                ELSE theory \notin DOMAIN fuzzy_results

C26_CacheLifetime ==
    [][/\ all_theories_cache # None
            => (all_theories_cache' = all_theories_cache \/ NewEngine)
       /\ (all_theories_cache = None /\ all_theories_cache' # None)
            => all_theories_cache' = Some(get_all_theory_names)
       /\ (mstatus' = "returned" /\ ~raised' /\ all_theories_cache' # None)
            => \A theory \in Range(theories') :
                  LET hit == ClaimHit(all_theories_cache'[1], theory, TRUE)
                  IN  theory \in DOMAIN fuzzy_results'
                         => /\ hit # None
                            /\ fuzzy_results'[theory].matched_theory
                                  = Aggregate(hit[1]).theory_name]_vars

\* "xy" finds no name in the corpus cached before " Xy" was added to the
\* store with cases
C26_Witness ==
    /\ mstatus = "returned"
    /\ ~raised
    /\ theories = << <<"x","y">> >>
    /\ all_theories_cache # None
    /\ <<" ","X","y">> \notin Range(all_theories_cache[1])
    /\ <<" ","X","y">> \in theories_table
    /\ case_theories[<<" ","X","y">>] # <<>>
    /\ <<"x","y">> \notin DOMAIN fuzzy_results

\* C30: match_theories records neither a normalized nor a fuzzy result for an
\* input name that is empty or holds only whitespace, whatever the store and
\* the corpus.
C30_BlankUnmatched ==
    mstatus = "returned" =>
        \A i \in 1..Len(theories) :
            ~NonBlank(theories[i]) =>
                /\ theories[i] \notin DOMAIN exact_results
                /\ theories[i] \notin DOMAIN fuzzy_results

----------------------------------------------------------------------------
(* Claims on the frequency tiers                                            *)

\* C8: the match engine puts a usage count c in the novel tier when
\* c <= novel_max, in the high-frequency tier when c >= high_freq_min, and in
\* the common tier otherwise.
C8_TierClassification ==
    tiers # None =>
        LET c == tiers[1].count
        IN  tiers[1].tier =
               IF c <= novel_max_usage THEN "novel"
               ELSE IF c >= high_freq_min_usage THEN "high_freq"
               ELSE "common"

----------------------------------------------------------------------------
(* Claims on build_theory_mapping                                           *)

\* the groups of a mapping: each canonical with the set of its members
GroupsOf(m) == {<<m[i][1], Range(m[i][2])>> : i \in 1..Len(m)}

\* C5: building from any order of the same names yields the same groups and
\* the same canonical for each group.
C5_Deterministic ==
    (mapping # None /\ first # None) => GroupsOf(mapping[1]) = GroupsOf(first[1])

\* C6: after a build every non-blank input name is in exactly one group, the
\* groups are pairwise disjoint, each made of input names with its canonical
\* among them, and no two groups have the same canonical.
C6_Partition ==
    mapping # None =>
        LET m == mapping[1]
            inputs == {n \in Range(names) : n # NotAString /\ NonBlank(n)}
        IN  /\ \A n \in inputs :
                  Cardinality({i \in 1..Len(m) : n \in Range(m[i][2])}) = 1
            /\ \A i, j \in 1..Len(m) :
                  i # j => /\ Range(m[i][2]) \cap Range(m[j][2]) = {}
                           /\ m[i][1] # m[j][1]
            /\ \A i \in 1..Len(m) :
                  /\ Range(m[i][2]) \subseteq inputs
                  /\ m[i][1] \in Range(m[i][2])
                  /\ Cardinality(Range(m[i][2])) = Len(m[i][2])

\* a build that returned two groups, one of them merged from names of
\* different signatures
C6_Witness ==
    /\ mapping # None
    /\ Len(mapping[1]) >= 2
    /\ \E i \in 1..Len(mapping[1]) :
          \E a, b \in Range(mapping[1][i][2]) : signature(a) # signature(b)

\* C21: after build_theory_mapping no two distinct groups hold members a and
\* b with fuzz.ratio(a.lower(), b.lower()) at or above the threshold 92.
C21_MergeFixpoint ==
    mapping # None =>
        \A i, j \in 1..Len(mapping[1]) :
            i # j => \A a \in Range(mapping[1][i][2]), b \in Range(mapping[1][j][2]) :
                        RatioTable[<<a, b>>] < RATIO_THRESHOLD

\* C22: two input names with the same acronym (when they have one) or the
\* same suffix-stripped core are in the same group of the built mapping.
C22_SharedComponent ==
    mapping # None =>
        \A a, b \in {n \in Range(names) : n # NotAString /\ NonBlank(n)} :
            (\/ /\ SignatureTable[a][1] # <<>>
                /\ SignatureTable[a][1] = SignatureTable[b][1]
             \/ SignatureTable[a][2] = SignatureTable[b][2])
            => \E i \in 1..Len(mapping[1]) : {a, b} \subseteq Range(mapping[1][i][2])

\* v is below w in the order of the canonical selection: ideographs, then
\* length, then the frequency of the string in the names given, then the
\* lexicographic order
CorpusLess(v, w) ==
    IF CnCount(v) # CnCount(w) THEN CnCount(v) < CnCount(w)
    ELSE IF Len(v) # Len(w) THEN Len(v) < Len(w)
    ELSE IF Count(names, v) # Count(names, w) THEN Count(names, v) < Count(names, w)
    ELSE StrLess(v, w)

\* C23: the canonical of every group is the member of the group that is
\* greatest by (ideographs, length, frequency in the corpus, lexicographic
\* order).
C23_CanonicalGreatest ==
    mapping # None =>
        \A i \in 1..Len(mapping[1]) :
            /\ mapping[1][i][1] \in Range(mapping[1][i][2])
            /\ \A w \in Range(mapping[1][i][2]) : ~CorpusLess(mapping[1][i][1], w)

\* C24: every entry of the mapping is canonical -> list, the list starts
\* with the canonical and holds pairwise distinct non-blank input names; a
\* blank name or a value that is not a string is in no group; no names, no
\* entries.
C24_EmittedShape ==
    mapping # None =>
        LET m == mapping[1]
        IN  /\ \A i \in 1..Len(m) :
                  /\ m[i][2] # <<>>
                  /\ m[i][2][1] = m[i][1]
                  /\ \A j, k \in 1..Len(m[i][2]) : j # k => m[i][2][j] # m[i][2][k]
                  /\ \A j \in 1..Len(m[i][2]) :
                        /\ m[i][2][j] \in Range(names)
                        /\ m[i][2][j] # NotAString
                        /\ Strip(m[i][2][j]) # <<>>
            /\ names = <<>> => m = <<>>

\* a build from a blank name, None and "SWOT分析": one group of one name
C24_Witness ==
    /\ mapping # None
    /\ NotAString \in Range(names)
    /\ <<" ">> \in Range(names)
    /\ mapping[1] = << << <<"S","W","O","T","u5206","u6790">>,
                          << <<"S","W","O","T","u5206","u6790">> >> >> >>

----------------------------------------------------------------------------
(* Claims on the scorer                                                     *)

\* the canonical identity of a theory name: what normalize returns for it
Canonical(t) == Lookup(build_reverse_mapping.rev[1], t)

\* C7: theory_overlap is the share of the canonical theories of the new case
\* that are canonical theories of the candidate (0 when the new case has
\* none), and matched_theories is that intersection.
C7_OverlapCanonical ==
    scored # None =>
        LET cn == {Canonical(t) : t \in Range(scored[1].new_case.theories)}
            cc == {Canonical(t) : t \in Range(scored[1].candidate)}
        IN  /\ scored[1].result.theory_overlap =
                  IF cn = {} THEN Frac(0, 1)
                  ELSE Frac(Cardinality(cn \cap cc), Cardinality(cn))
            /\ scored[1].result.matched_theories = cn \cap cc

\* a score between 0 and 1
InUnit(x) == 0 <= x[1] /\ x[1] <= x[2]

\* the sum of four scores
Sum4(a, b, c, d) == FracAdd(FracAdd(a, b), FracAdd(c, d))

RankOf(entries, i) ==
    1 + Cardinality({j \in 1..Len(entries) :
                        \/ FracLess(entries[i].scores.final_score,
                                    entries[j].scores.final_score)
                        \/ /\ entries[j].scores.final_score = entries[i].scores.final_score
                           /\ j < i})

\* C17: for top_k >= 0, rank_similar_cases returns min(top_k, n) entries of
\* the n candidates, ordered by final_score from high to low, candidates of
\* equal final_score in their input order.
C17_StableRanking ==
    (ranked # None /\ ranked[1].top_k >= 0) =>
        LET r == ranked[1]
            n == Len(r.semantic_matches)
            entries == [i \in 1..n |->
                           ScoredEntry(r.weights, r.new_case, r.semantic_matches[i])]
        IN  /\ Len(r.result) = IF r.top_k < n THEN r.top_k ELSE n
            /\ \A i \in 1..n :
                  RankOf(entries, i) <= Len(r.result)
                     => r.result[RankOf(entries, i)] = entries[i]
            /\ \A i, j \in 1..Len(r.result) :
                  i < j => ~FracLess(r.result[i].scores.final_score,
                                     r.result[j].scores.final_score)

\* a ranking of three candidates, cut to two, in which a candidate moved up
\* past two candidates of equal score that kept their order
C17_Witness ==
    /\ ranked # None
    /\ ranked[1].top_k = 2
    /\ Len(ranked[1].semantic_matches) = 3
    /\ ranked[1].semantic_matches[1].case_id = "1"
    /\ ranked[1].semantic_matches[2].case_id = "2"
    /\ ranked[1].semantic_matches[3].case_id = "4"
    /\ Len(ranked[1].result) = 2
    /\ ranked[1].result[1].case_id = "4"
    /\ ranked[1].result[2].case_id = "1"

\* C18: for a case of n >= 1 theories every theory is in one tier by its
\* match count (0 without a match result), innovation_score is
\* round(100 * (novel_ratio * 1.0 + common_ratio * 0.5 + high_freq_ratio * 0.2), 1)
\* with ratios = tier size / n; a case without theories has score 0, ratios
\* 0 and empty tier lists.
C18_InnovationScore ==
    innovation # None =>
        LET ts == innovation[1].theories
            m == innovation[1].exact_matches
            r == innovation[1].result
            n == Len(ts)
            c(t) == IF t \in DOMAIN m THEN m[t] ELSE 0
            ratios == FracAdd(FracAdd(r.novel_ratio,
                                      FracMul(r.common_ratio, Frac(1, 2))),
                              FracMul(r.high_freq_ratio, Frac(1, 5)))
            tenths == FracMul(Frac(1000, 1), ratios)
            down == tenths[1] \div tenths[2]
            rest == tenths[1] % tenths[2]
        IN  IF n = 0
            THEN /\ r.innovation_score = Frac(0, 1)
                 /\ r.novel_ratio = Frac(0, 1)
                 /\ r.common_ratio = Frac(0, 1)
                 /\ r.high_freq_ratio = Frac(0, 1)
                 /\ r.novel_theories = <<>>
                 /\ r.common_theories = <<>>
                 /\ r.high_frequency_theories = <<>>
            ELSE /\ Len(r.novel_theories) + Len(r.common_theories)
                       + Len(r.high_frequency_theories) = n
                 /\ \A t \in Range(ts) :
                       Cardinality({l \in {r.novel_theories, r.common_theories,
                                           r.high_frequency_theories} :
                                       t \in Range(l)}) = 1
                 /\ novel_max_usage < high_freq_min_usage =>
                       /\ r.novel_theories = SelectSeq(ts, LAMBDA t : c(t) <= novel_max_usage)
                       /\ r.high_frequency_theories =
                             SelectSeq(ts, LAMBDA t : c(t) >= high_freq_min_usage)
                       /\ r.common_theories =
                             SelectSeq(ts, LAMBDA t : /\ c(t) > novel_max_usage
                                                      /\ c(t) < high_freq_min_usage)
                 /\ r.novel_ratio = Frac(Len(r.novel_theories), n)
                 /\ r.common_ratio = Frac(Len(r.common_theories), n)
                 /\ r.high_freq_ratio = Frac(Len(r.high_frequency_theories), n)
                 /\ r.innovation_score \in
                       IF 2 * rest < tenths[2] THEN {Frac(down, 10)}
                       ELSE IF 2 * rest > tenths[2] THEN {Frac(down + 1, 10)}
                       ELSE {Frac(IF down % 2 = 0 THEN down ELSE down + 1, 10)}

\* match counts 1, 3 and 6 under thresholds 2 and 5: one theory a tier,
\* score 56.7
C18_Witness ==
    /\ innovation # None
    /\ novel_max_usage = 2
    /\ high_freq_min_usage = 5
    /\ innovation[1].theories = << <<"A">>, <<"B">>, <<"C">> >>
    /\ innovation[1].result.novel_theories = << <<"A">> >>
    /\ innovation[1].result.common_theories = << <<"B">> >>
    /\ innovation[1].result.high_frequency_theories = << <<"C">> >>
    /\ innovation[1].result.innovation_score = Frac(567, 10)

\* the keywords of a string: the pieces between two separators (or an end
\* of the string) that hold no separator, trimmed, the empty ones left out
Separators == {",", "uff0c", ";", "uff1b"}

KeywordSet(s) ==
    { Strip(SubSeq(s, p[1], p[2])) :
        p \in { q \in (1..Len(s)) \X (1..Len(s)) :
                  /\ q[1] <= q[2]
                  /\ \A k \in q[1]..q[2] : s[k] \notin Separators
                  /\ q[1] = 1 \/ s[q[1] - 1] \in Separators
                  /\ q[2] = Len(s) \/ s[q[2] + 1] \in Separators } } \ { <<>> }

\* C19: the keyword similarity is |A \cap B| / |A \cup B| for the keyword
\* sets of the two strings, split on the comma, the semicolon and their
\* full-width forms and trimmed, and 0 when a string or a set is empty.
C19_KeywordJaccard ==
    keyworded # None =>
        LET A == KeywordSet(keyworded[1].keywords1)
            B == KeywordSet(keyworded[1].keywords2)
        IN  keyworded[1].result =
               IF A = {} \/ B = {} THEN Frac(0, 1)
               ELSE Frac(Cardinality(A \cap B), Cardinality(A \cup B))

\* "市场,品牌,创新" against "市场;创新": 2/3
C19_Witness ==
    /\ keyworded # None
    /\ keyworded[1].keywords1 = <<"u5e02","u573a",",","u54c1","u724c",",","u521b","u65b0">>
    /\ keyworded[1].keywords2 = <<"u5e02","u573a",";","u521b","u65b0">>
    /\ keyworded[1].result = Frac(2, 3)

\* C20: for every usage count and every pair of thresholds, also with
\* novel_max >= high_freq_min, calculate_innovation_score and
\* get_frequency_distribution give the count the tier that the match engine
\* (merge_theory_results, _get_frequency_info) gives it.
C20_TierAgreement ==
    tiers # None =>
        /\ tiers[1].tier = FrequencyRank(tiers[1].count)
        /\ tiers[1].tier = get_frequency_info(tiers[1].count)

----------------------------------------------------------------------------
(* Specifications                                                           *)

\* the normalizer used by one caller at a time
InitNorm == NormInit /\ ConcIdle /\ StoreIdle /\ MatchIdle /\ LibIdle

SpecNorm ==
    InitNorm /\ [][NormNext]_vars

\* the normalizer used by a reader thread and a writer thread
InitConc == ConcInit /\ StoreIdle /\ MatchIdle /\ LibIdle

SpecConc ==
    InitConc /\ [][ConcNext]_vars

\* the match engine on a case store that may raise
InitMatch == MatchInit /\ ConcIdle /\ LibIdle

SpecMatch ==
    InitMatch /\ [][MatchNext]_vars

\* the match engine on one name at a time
InitFallback == MatchInit /\ ConcIdle /\ LibIdle

SpecFallback ==
    InitFallback /\ [][FallbackNext]_vars

\* one engine after another on a store that gains names between calls
InitCache == MatchInit /\ ConcIdle /\ LibIdle

SpecCache ==
    InitCache /\ [][CacheNext]_vars

\* the classification of usage counts under any thresholds
InitTier == TierInit /\ NormIdle /\ ConcIdle /\ MatchIdle /\ MapIdle /\ ScoreIdle /\ ListIdle

SpecTier ==
    InitTier /\ [][TierNext]_vars

\* the innovation score of a new case under any thresholds
InitInnovation ==
    TierInit /\ NormIdle /\ ConcIdle /\ MatchIdle /\ MapIdle /\ ScoreIdle /\ ListIdle

SpecInnovation ==
    InitInnovation /\ [][InnovationNext]_vars

\* the mapping builder on every order of its input
InitMap == MapInit /\ NormIdle /\ ConcIdle /\ StoreIdle /\ MatchIdle /\ TierIdle /\ ScoreIdle
             /\ ListIdle

SpecMap ==
    InitMap /\ [][MapNext]_vars

\* the scorer on one new case and one candidate
InitScore == ScoreInit /\ NormIdle /\ ConcIdle /\ StoreIdle /\ MatchIdle /\ TierIdle /\ MapIdle
               /\ ListIdle

SpecScore ==
    InitScore /\ [][ScoreNext]_vars

\* normalize_list on the index of any mapping file
InitList == ListInit /\ ConcIdle /\ StoreIdle /\ MatchIdle /\ TierIdle /\ MapIdle /\ ScoreIdle

SpecList ==
    InitList /\ [][ListNext]_vars

====
